---- MODULE Spec2Model ----
(***************************************************************************)
(* Pipeline ledger (status_<project>.csv) and step-1 batch scheduler of    *)
(* the 3d photogrammetry workflow.                                         *)
(*                                                                         *)
(* Two generations of the ledger primitives are modelled:                  *)
(*   - src/src/config.py                 (current; names as in the source) *)
(*   - src/src/_old_2july2025/config.py  (names prefixed old_)             *)
(* A CSV file is a record [exists, rows]; rows is the list csv.reader      *)
(* returns (row 1 is the header), every cell a string.  csv.writer /       *)
(* csv.reader with newline='' give back the same list of lists of strings. *)
(***************************************************************************)
EXTENDS Integers, Sequences, FiniteSets, TLC

VARIABLES
    ledger,        \* the tracking file status_<PROJECT_ID>.csv
    day,           \* the clock: the calendar day of datetime.now()
    hist,          \* the last ledger call: [op, model_id, step, data, before]
    lastRow,       \* per id, the record as it stood after the last call for that id
    nops,          \* number of calls made so far (bounds the exploration)
    max_chunks,    \* MAX_CHUNKS_PER_PSX of this project's analysis_params.yaml
    pc,            \* where the step-1 scheduler process stands
    batches,       \* main: the batches built for this run
    bi,            \* main: index of the batch being processed
    ti,            \* process_batch: index of the transect being processed
    doc,           \* process_batch: the chunks of the open Metashape.Document
    results,       \* process_batch: keys of the results dict, in insertion order
    batch_mapping, \* main: the batch_mapping dict, a sequence of <<psx path, ids>>
    psx_files,     \* the .psx containers on disk: path -> chunks
    summary,       \* psx_batch_summary.csv
    sealed,        \* the containers closed by earlier runs, as they stood when the run ended
    runlog,        \* history of the runs: n, ok, bad, selected, written, finished, end
                   \* of the last run; failed, interrupted, alloc, runs over all runs
    project        \* the project directory without the ledger: path -> [kind, content]

ledgerVars == <<ledger, hist, lastRow, nops>>

schedVars == <<max_chunks, pc, batches, bi, ti, doc, results, batch_mapping,
               psx_files, summary, sealed, runlog, project>>

vars == <<ledger, day, hist, lastRow, nops, max_chunks, pc, batches, bi, ti, doc,
          results, batch_mapping, psx_files, summary, sealed, runlog, project>>

----------------------------------------------------------------------------
(* Bounds of the exploration *)

MaxOps == 3

ModelIds == {"T1", "T2", "T3"}

Steps == 0..4

MaxDay == 2

Days == 1..MaxDay

----------------------------------------------------------------------------
(* Python list helpers *)

\* list.index(x): the first position of x (1-based here), 0 when absent
\* (Python raises ValueError).
IndexOf(seq, x) ==
    IF \E i \in 1..Len(seq) : seq[i] = x
    THEN CHOOSE i \in 1..Len(seq) : seq[i] = x /\ \A j \in 1..(i-1) : seq[j] # x
    ELSE 0

\* [""] * n
RECURSIVE Blanks(_)
Blanks(n) == IF n = 0 THEN <<>> ELSE Append(Blanks(n - 1), "")

\* while len(row) <= col_index: row.append("")   (col is 1-based)
PadTo(row, col) ==
    IF Len(row) >= col THEN row ELSE row \o Blanks(col - Len(row))

NoFile == [exists |-> FALSE, rows |-> <<>>]

CsvFile(rows) == [exists |-> TRUE, rows |-> rows]

\* datetime.now().strftime("%Y-%m-%d %H:%M:%S"); the model clock has one
\* reading per day d.
Stamp(d) == "2025-07-0" \o ToString(d) \o " 00:00:00"

\* datetime.now().strftime("%Y-%m-%d %H:%M")
StampMinute(d) == "2025-07-0" \o ToString(d) \o " 00:00"

----------------------------------------------------------------------------
(* src/src/config.py : the ledger primitives of the current scripts *)

\* initialize_tracking: the fixed column list
headers ==
    << "Model ID", "Status",
       "Step 0 complete", "Video Length (s)", "Total Video Frames", "Frames Extracted",
       "Video Source", "Extraction Timestamp", "Step 0 start time", "Step 0 end time",
       "Step 0 processing time (s)", "Frames directory",
       "Step 1 complete", "Step 1 start time", "Step 1 end time",
       "Step 1 processing time (s)", "Aligned cameras", "Total cameras",
       "PSX file", "Report file", "Step 1 error time",
       "Step 2 complete", "Step 2 site", "Step 2 consolidation time",
       "Step 3 complete", "Step 3 scale applied", "Step 3 ortho exported",
       "Step 3 model exported", "Step 3 processing time",
       "Step 4 complete", "Step 4 web published", "Sketchfab URL",
       "Step 4 high-res exported", "Step 4 processing time",
       "Notes" >>

\* new_row of initialize_tracking: [""] * len(headers), then the id, Status
\* "Initialized" and a Notes line are stored at the index of their column.
InitialRow(hdrs, model_id, d) ==
    [Blanks(Len(hdrs)) EXCEPT
        ![IndexOf(hdrs, "Model ID")] = model_id,
        ![IndexOf(hdrs, "Status")] = "Initialized",
        ![IndexOf(hdrs, "Notes")] = "Tracking initialized " \o StampMinute(d)]

\* for row in rows[1:]: if row and len(row) > id_index and row[id_index] == model_id
\* The position (1-based, header is 1) of the first such row, 0 when none.
\* id_index is 1-based here.
FindModelRow(rows, id_index, model_id) ==
    LET Hit(i) == /\ Len(rows[i]) > 0
                  /\ Len(rows[i]) >= id_index
                  /\ rows[i][id_index] = model_id
    IN  IF \E i \in 2..Len(rows) : Hit(i)
        THEN CHOOSE i \in 2..Len(rows) : Hit(i) /\ \A j \in 2..(i-1) : ~Hit(j)
        ELSE 0

\* initialize_tracking(model_id): the file afterwards.
initialize_tracking(f, model_id, d) ==
    LET rows0          == IF f.exists THEN f.rows ELSE <<>>
        current_header == IF rows0 # <<>> THEN rows0[1] ELSE <<>>
        needs_header   == ~f.exists \/ rows0 = <<>> \/ current_header # headers
        \* open(..., 'w'); writerow(headers); rows = [headers]
        rows1          == IF needs_header THEN <<headers>> ELSE rows0
        model_exists   == /\ Len(rows1) > 1
                          /\ FindModelRow(rows1, IndexOf(headers, "Model ID"), model_id) # 0
    IN  IF model_exists
        THEN CsvFile(rows1)
        ELSE CsvFile(Append(rows1, InitialRow(headers, model_id, d)))

\* The except branch of update_tracking's loop: header.append(key); every
\* data row gets "" appended (the current row idx too, it is one of them);
\* then current_row.append(str(value)).  Rows i.. of the result.
RECURSIVE AddColumn(_, _, _, _, _)
AddColumn(rows, i, idx, key, value) ==
    IF i > Len(rows) THEN <<>>
    ELSE << IF i = 1 THEN Append(rows[1], key)
            ELSE IF i = idx THEN Append(Append(rows[i], ""), value)
            ELSE Append(rows[i], "") >>
         \o AddColumn(rows, i + 1, idx, key, value)

\* "for key, value in data.items()" of update_tracking, from entry k of data
\* on.  header is rows[1] (the same list object in the source).  A key that
\* is not in the header is added as a new column.
RECURSIVE ApplyData(_, _, _, _, _)
ApplyData(rows, idx, data, k, updated) ==
    IF k > Len(data) THEN [rows |-> rows, updated |-> updated]
    ELSE
      LET key   == data[k][1]
          value == data[k][2]
          col   == IndexOf(rows[1], key)
      IN  IF col # 0
          THEN LET padded == PadTo(rows[idx], col)
                   differs == padded[col] # value
                   row2 == IF differs THEN [padded EXCEPT ![col] = value] ELSE padded
               IN  ApplyData([rows EXCEPT ![idx] = row2], idx, data, k + 1,
                             updated \/ differs)
          ELSE ApplyData(AddColumn(rows, 1, idx, key, value), idx, data, k + 1, TRUE)

\* update_tracking(model_id, data): the file afterwards.  data is the dict
\* in insertion order, a sequence of <<key, value>>.
update_tracking(f, model_id, data, d) ==
    LET f1 == IF ~f.exists THEN initialize_tracking(f, model_id, d) ELSE f
        \* file exists but is empty
        f2 == IF f1.rows = <<>> THEN initialize_tracking(f1, model_id, d) ELSE f1
        header   == f2.rows[1]
        id_index == IndexOf(header, "Model ID")
        idx2     == FindModelRow(f2.rows, id_index, model_id)
        \* model not in the file: add it with initialize_tracking and reread
        f3   == IF idx2 = 0 THEN initialize_tracking(f2, model_id, d) ELSE f2
        idx3 == FindModelRow(f3.rows, id_index, model_id)
        res  == ApplyData(f3.rows, idx3, data, 1, FALSE)
    IN  IF header = <<>> \/ id_index = 0 THEN f2
        ELSE IF idx3 = 0 THEN f3
        ELSE IF res.updated THEN CsvFile(res.rows)
        ELSE f3

\* The dict of column name -> cell that get_transect_status builds for a row.
RowDict(header, row) ==
    [c \in {header[i] : i \in 1..Len(header)} |->
        LET i == CHOOSE j \in 1..Len(header) :
                    header[j] = c /\ \A h \in (j+1)..Len(header) : header[h] # c
        IN  IF i <= Len(row) THEN row[i] ELSE ""]

\* {} : the empty dict
EmptyDict == [c \in {} |-> ""]

\* dict.get(key, default)
Get(dict, key, default) == IF key \in DOMAIN dict THEN dict[key] ELSE default

\* get_transect_status(model_id): the dict returned; the file is only read.
get_transect_status(f, model_id) ==
    IF ~f.exists \/ Len(f.rows) < 2 THEN EmptyDict
    ELSE LET header   == f.rows[1]
             id_index == IndexOf(header, "Model ID")
             idx      == FindModelRow(f.rows, id_index, model_id)
         IN  IF id_index = 0 \/ idx = 0 THEN EmptyDict
             ELSE RowDict(header, f.rows[idx])


----------------------------------------------------------------------------
(* src/src/_old_2july2025/config.py : the ledger primitives before July 2025 *)

\* initialize_tracking: the fixed column list (the source writes m2 and cm2
\* with a superscript 2)
old_headers ==
    << "Model ID", "Status", "Notes",
       "Video Length (s)", "Total Video Frames", "Frames Extracted", "Video Source",
       "Step 0 processing time (s)", "Frames directory",
       "Step 0 complete", "Step 0 complete time", "Step 0 processing time",
       "Step 1 processing time (s)", "Aligned cameras", "Total cameras", "PSX file",
       "Tie points", "Dense points", "Triangles", "Reprojection error (px)",
       "Overlap percentage",
       "Step 1 complete", "Step 1 complete time", "Step 1 processing time",
       "Step 2 site", "PSX directory/filename",
       "Step 2 complete",
       "Step 3 scale method", "Step 3 scale applied", "Coverage area (m2)",
       "Point cloud density (pts/cm2)", "Model resolution (mm/px)",
       "Step 3 complete", "Step 3 complete time", "Step 3 processing time",
       "Step 4 complete", "Step 4 complete time", "Step 4 processing time" >>

\* A test that never finds the header duplicated.
old_HeaderDuplicated_never(rows) == FALSE

\* The duplicated-header test of initialize_tracking and get_transect_status:
\*   len(rows) > 1 and len(rows[1]) == len(header) and rows[1][0] == "Model ID"
\* (rows[1][0] on an empty row raises IndexError; initialize_tracking catches
\* it and also treats the file as unreadable.)
old_HeaderDuplicated(rows) ==
    /\ Len(rows) > 1
    /\ Len(rows[2]) = Len(rows[1])
    /\ \/ Len(rows[2]) = 0
       \/ rows[2][1] = "Model ID"

\* initialize_tracking(model_id): the file afterwards.
old_initialize_tracking(f, model_id, d) ==
    LET rows0          == IF f.exists THEN f.rows ELSE <<>>
        current_header == IF rows0 # <<>> THEN rows0[1] ELSE <<>>
        file_exists    == f.exists /\ ~old_HeaderDuplicated(rows0)
        needs_header   == ~file_exists \/ rows0 = <<>> \/ current_header # old_headers
        rows1          == IF needs_header THEN <<old_headers>> ELSE rows0
        model_exists   == /\ Len(rows1) > 1
                          /\ FindModelRow(rows1, IndexOf(old_headers, "Model ID"), model_id) # 0
    IN  IF model_exists
        THEN CsvFile(rows1)
        ELSE CsvFile(Append(rows1, InitialRow(old_headers, model_id, d)))

\* The loop with an except branch that goes on to the next key instead of
\* returning: the fields that are columns are written.
RECURSIVE old_ApplyData_skip(_, _, _, _, _)
old_ApplyData_skip(rows, idx, data, k, updated) ==
    IF k > Len(data) THEN [rows |-> rows, updated |-> updated, aborted |-> FALSE]
    ELSE
      LET key   == data[k][1]
          value == data[k][2]
          col   == IndexOf(rows[1], key)
      IN  IF col # 0
          THEN LET padded == PadTo(rows[idx], col)
                   differs == padded[col] # value
                   row2 == IF differs THEN [padded EXCEPT ![col] = value] ELSE padded
               IN  old_ApplyData_skip([rows EXCEPT ![idx] = row2], idx, data, k + 1,
                                      updated \/ differs)
          ELSE old_ApplyData_skip(rows, idx, data, k + 1, updated)

\* The "for key, value in data.items()" loop of update_tracking from entry k
\* on.  A key that is not a column prints an error and returns from
\* update_tracking at once: aborted, nothing is written.
RECURSIVE old_ApplyData(_, _, _, _, _)
old_ApplyData(rows, idx, data, k, updated) ==
    IF k > Len(data) THEN [rows |-> rows, updated |-> updated, aborted |-> FALSE]
    ELSE
      LET key   == data[k][1]
          value == data[k][2]
          col   == IndexOf(rows[1], key)
      IN  IF col # 0
          THEN LET padded == PadTo(rows[idx], col)
                   differs == padded[col] # value
                   row2 == IF differs THEN [padded EXCEPT ![col] = value] ELSE padded
               IN  old_ApplyData([rows EXCEPT ![idx] = row2], idx, data, k + 1,
                                 updated \/ differs)
          ELSE [rows |-> rows, updated |-> updated, aborted |-> TRUE]

\* update_tracking(model_id, data): the file afterwards.
old_update_tracking(f, model_id, data, d) ==
    LET f1 == IF ~f.exists THEN old_initialize_tracking(f, model_id, d) ELSE f
        f2 == IF f1.rows = <<>> THEN old_initialize_tracking(f1, model_id, d) ELSE f1
        header   == f2.rows[1]
        id_index == IndexOf(header, "Model ID")
        idx2     == FindModelRow(f2.rows, id_index, model_id)
        f3   == IF idx2 = 0 THEN old_initialize_tracking(f2, model_id, d) ELSE f2
        idx3 == FindModelRow(f3.rows, id_index, model_id)
        res  == old_ApplyData(f3.rows, idx3, data, 1, FALSE)
    IN  IF header = <<>> \/ id_index = 0 THEN f2
        ELSE IF idx3 = 0 THEN f3
        ELSE IF res.aborted THEN f3
        ELSE IF res.updated THEN CsvFile(res.rows)
        ELSE f3

\* get_transect_status(model_id): the dict returned.
old_get_transect_status(f, model_id) ==
    IF ~f.exists \/ Len(f.rows) < 2 THEN EmptyDict
    ELSE IF Len(f.rows[2]) = Len(f.rows[1]) /\ Len(f.rows[2]) > 0
            /\ f.rows[2][1] = "Model ID"
         THEN [c \in {"Status"} |-> "Initialized"]
    ELSE LET header   == f.rows[1]
             id_index == IndexOf(header, "Model ID")
             idx      == FindModelRow(f.rows, id_index, model_id)
         IN  IF id_index = 0 \/ idx = 0 THEN EmptyDict
             ELSE RowDict(header, f.rows[idx])

\* get_transect_status(model_id): the file afterwards (a duplicated header
\* makes it call initialize_tracking).
old_get_transect_status_file(f, model_id, d) ==
    IF f.exists /\ Len(f.rows) >= 2
       /\ Len(f.rows[2]) = Len(f.rows[1]) /\ Len(f.rows[2]) > 0
       /\ f.rows[2][1] = "Model ID"
    THEN old_initialize_tracking(f, model_id, d)
    ELSE f

\* get_current_timestamp(): "%m/%d/%Y %H:%M:%S" of the clock; the model
\* clock has one reading per day.
get_current_timestamp(d) == "07/0" \o ToString(d) \o "/2025 00:00:00"

\* calculate_processing_time(start_time, end_time): strptime both, format
\* the difference as HH:MM:SS; "" when start_time is empty or does not parse.
calculate_processing_time(start_time, end_time) ==
    IF start_time = "" THEN ""
    ELSE IF ~(\E a \in Days : get_current_timestamp(a) = start_time) THEN ""
    ELSE IF ~(\E b \in Days : get_current_timestamp(b) = end_time) THEN ""
    ELSE LET a == CHOOSE x \in Days : get_current_timestamp(x) = start_time
             b == CHOOSE x \in Days : get_current_timestamp(x) = end_time
             hours == (b - a) * 24
         IN  (IF hours < 10 THEN "0" ELSE "") \o ToString(hours) \o ":00:00"

StepStr(step_number) == "Step " \o ToString(step_number)

\* start_step_tracking(model_id, step_number): the dict it passes on
start_step_data(step_number, d) ==
    << <<StepStr(step_number) \o " start time", get_current_timestamp(d)>>,
       <<"Status", StepStr(step_number) \o " in progress">> >>

\* start_step_tracking: the file afterwards
start_step_tracking(f, model_id, step_number, d) ==
    old_update_tracking(f, model_id, start_step_data(step_number, d), d)

\* complete_step_tracking: update_data (start_time "" stands for None;
\* additional_data is a sequence of <<key, value>>, <<>> for None).
\* dict.update keeps the position of a key that is already there.
complete_step_data(step_number, start_time, additional_data, d) ==
    LET completion_time == get_current_timestamp(d)
        base == << <<StepStr(step_number) \o " complete", "TRUE">>,
                   <<StepStr(step_number) \o " complete time", completion_time>>,
                   <<"Status", StepStr(step_number) \o " complete">> >>
        timed == IF start_time # ""
                 THEN Append(base, <<StepStr(step_number) \o " processing time",
                                     calculate_processing_time(start_time, completion_time)>>)
                 ELSE base
        Val(key, dflt) ==
            IF \E j \in 1..Len(additional_data) : additional_data[j][1] = key
            THEN additional_data[CHOOSE j \in 1..Len(additional_data) :
                                     additional_data[j][1] = key][2]
            ELSE dflt
        Merged[i \in 0..Len(timed)] ==
            IF i = 0 THEN <<>>
            ELSE Append(Merged[i - 1], <<timed[i][1], Val(timed[i][1], timed[i][2])>>)
        extra  == SelectSeq(additional_data,
                            LAMBDA kv : \A i \in 1..Len(timed) : timed[i][1] # kv[1])
    IN  Merged[Len(timed)] \o extra

\* complete_step_tracking: the file afterwards
complete_step_tracking(f, model_id, step_number, start_time, additional_data, d) ==
    old_update_tracking(f, model_id,
                        complete_step_data(step_number, start_time, additional_data, d), d)

\* str.upper() on the values the flag column takes
Upper(s) ==
    IF s \in {"True", "true", "TRUE"} THEN "TRUE"
    ELSE IF s \in {"False", "false", "FALSE"} THEN "FALSE"
    ELSE s

\* should_process_step(model_id, step_number)
should_process_step(f, model_id, step_number) ==
    Upper(Get(old_get_transect_status(f, model_id),
              StepStr(step_number) \o " complete", "")) # "TRUE"

\* mark_step_for_reprocessing: the dict it passes on
mark_step_data(step_number) ==
    << <<StepStr(step_number) \o " complete", "FALSE">>,
       <<"Status", StepStr(step_number) \o " marked for reprocessing">> >>

\* mark_step_for_reprocessing: the file afterwards
mark_step_for_reprocessing(f, model_id, step_number, d) ==
    old_update_tracking(f, model_id, mark_step_data(step_number), d)

\* utility/reset_selective.py: ", ".join([f"Step {s}" for s in steps])
RECURSIVE reset_steps_text(_, _)
reset_steps_text(steps, i) ==
    IF i > Len(steps) THEN ""
    ELSE (IF i > 1 THEN ", " ELSE "") \o StepStr(steps[i]) \o reset_steps_text(steps, i + 1)

\* selective_reset_csv: the dict of its update_tracking call
selective_reset_data(steps, d) ==
    << <<"Status", "Reset for reprocessing: " \o reset_steps_text(steps, 1)>>,
       <<"Notes", "Selective reset on " \o get_current_timestamp(d) \o ": "
                     \o reset_steps_text(steps, 1)>> >>

\* selective_reset_csv: "for step in steps: mark_step_for_reprocessing(...)"
\* from entry i on, the file afterwards
RECURSIVE MarkSteps(_, _, _, _, _)
MarkSteps(f, model_id, steps, i, d) ==
    IF i > Len(steps) THEN f
    ELSE MarkSteps(mark_step_for_reprocessing(f, model_id, steps[i], d),
                   model_id, steps, i + 1, d)

----------------------------------------------------------------------------
(* State shared by the specifications *)

NoCall == [op |-> "none", model_id |-> "", step |-> 0, data |-> <<>>, before |-> NoFile]

Call(op, model_id, step, data, before) ==
    [op |-> op, model_id |-> model_id, step |-> step, data |-> data, before |-> before]

\* The cell of row under the column named c ("" when the header has no such
\* column or the row is too short).
Cell(header, row, c) ==
    IF IndexOf(header, c) = 0 \/ IndexOf(header, c) > Len(row) THEN ""
    ELSE row[IndexOf(header, c)]

\* The record of model_id over the columns hdrs, EmptyDict when it has none.
Record(f, hdrs, model_id) ==
    IF ~f.exists \/ Len(f.rows) < 2 THEN EmptyDict
    ELSE IF IndexOf(f.rows[1], "Model ID") = 0 THEN EmptyDict
    ELSE IF FindModelRow(f.rows, IndexOf(f.rows[1], "Model ID"), model_id) = 0 THEN EmptyDict
    ELSE LET Dict(header, row) ==
                 [c \in {hdrs[i] : i \in 1..Len(hdrs)} |-> Cell(header, row, c)]
         IN  Dict(f.rows[1],
                  f.rows[FindModelRow(f.rows, IndexOf(f.rows[1], "Model ID"), model_id)])

HasRecord(f, model_id) == Record(f, <<"Model ID">>, model_id) # EmptyDict

\* The default of PARAMS['processing'].get('max_chunks_per_psx', 5)
DefaultMaxChunks == 5

IdleScheduler ==
    /\ pc = "idle"
    /\ batches = <<>>
    /\ bi = 0
    /\ ti = 0
    /\ doc = <<>>
    /\ results = <<>>
    /\ batch_mapping = <<>>
    /\ psx_files = <<>>
    /\ summary = NoFile
    /\ sealed = <<>>
    /\ runlog = [n |-> 0, ok |-> {}, failed |-> {}, interrupted |-> {}, written |-> {},
                 finished |-> FALSE, runs |-> 0,
                 selected |-> {}, bad |-> {}, end |-> "none", alloc |-> <<>>]
    /\ project = <<>>

LedgerInit ==
    /\ ledger = NoFile
    /\ day = 1
    /\ hist = NoCall
    /\ lastRow = [m \in ModelIds |-> EmptyDict]
    /\ nops = 0
    /\ max_chunks = DefaultMaxChunks
    /\ IdleScheduler

\* The clock moves on between two calls.
Tick ==
    /\ day < MaxDay
    /\ pc = "idle"
    /\ day' = day + 1
    /\ UNCHANGED <<ledgerVars, schedVars>>

----------------------------------------------------------------------------
(* SpecLedger: the current scripts' calls on the ledger (src/src/config.py) *)

\* step0.process_video: the dict of the tracking update after a successful
\* extraction
Step0SuccessData(d) ==
    << <<"Status", "Frames extracted">>,
       <<"Step 0 complete", "True">>,
       <<"Video Length (s)", "60.00">>,
       <<"Total Video Frames", "1800">>,
       <<"Frames Extracted", "1800">>,
       <<"Video Source", "video_source">>,
       <<"Extraction Timestamp", Stamp(d)>>,
       <<"Step 0 start time", Stamp(d)>>,
       <<"Step 0 end time", Stamp(d)>>,
       <<"Step 0 processing time (s)", "1.0">>,
       <<"Frames directory", "frames">>,
       <<"Notes", "Extracted 1800 high quality frames">> >>

\* step0.process_video: the dict of the tracking update in the except branch
Step0FailureData(d) ==
    << <<"Status", "Error in frame extraction">>,
       <<"Step 0 complete", "False">>,
       <<"Step 0 error time", Stamp(d)>>,
       <<"Notes", "Error: ffmpeg failed">> >>

\* step3.main: the dict of the tracking update after a chunk is exported
Step3CompleteData ==
    << <<"Status", "Step 3 complete">>,
       <<"Step 3 complete", "True">>,
       <<"Step 3 scale method", "Automatic">>,
       <<"Step 3 scale applied", "True">>,
       <<"Step 3 model grounded", "True">>,
       <<"Step 3 ortho exported", "True">>,
       <<"Step 3 model exported", "True">> >>

\* step2.main: the dict of the tracking update after a chunk is appended
Step2CompleteData ==
    << <<"Status", "Step 2 complete">>,
       <<"Step 2 complete", "True">>,
       <<"Step 2 site", "BWR">>,
       <<"Notes", "Chunk appended">> >>

\* The dicts the scripts hand to update_tracking.
UpdateInputs(d) == {Step0FailureData(d), Step2CompleteData, Step3CompleteData}

\* step0.process_video(video_path): initialize_tracking, the already-done
\* check, then the extraction and the tracking update of its outcome.
process_video(f, video_name, extracted, d) ==
    LET f1 == initialize_tracking(f, video_name, d)
        status == get_transect_status(f1, video_name)
    IN  IF Get(status, "Step 0 complete", "False") = "True" THEN f1
        ELSE IF extracted THEN update_tracking(f1, video_name, Step0SuccessData(d), d)
        ELSE update_tracking(f1, video_name, Step0FailureData(d), d)

Logged(op, m, step, data) ==
    /\ hist' = Call(op, m, step, data, ledger)
    /\ lastRow' = [lastRow EXCEPT ![m] = Record(ledger', headers, m)]
    /\ nops' = nops + 1
    /\ UNCHANGED <<day, schedVars>>

InitializeTracking(m) ==
    /\ nops < MaxOps
    /\ ledger' = initialize_tracking(ledger, m, day)
    /\ Logged("initialize_tracking", m, 0, <<>>)

UpdateTracking(m, data) ==
    /\ nops < MaxOps
    /\ ledger' = update_tracking(ledger, m, data, day)
    /\ Logged("update_tracking", m, 0, data)

ProcessVideo(m, extracted) ==
    /\ nops < MaxOps
    /\ ledger' = process_video(ledger, m, extracted, day)
    /\ Logged("process_video", m, 0,
              IF extracted THEN Step0SuccessData(day) ELSE Step0FailureData(day))

\* step3.main, one pass of "for chunk in doc.chunks" for the chunk labelled m:
\* skipped when 'Step 3 complete' is "True", else the three exports run
\* (each returns whether it succeeded) and the tracking update follows.
Step3Chunk(m, ortho_ok, model_ok, report_ok) ==
    /\ nops < MaxOps
    /\ Get(get_transect_status(ledger, m), "Step 3 complete", "") # "True"
    /\ ledger' = update_tracking(ledger, m, Step3CompleteData, day)
    /\ hist' = [op |-> "step3_chunk", model_id |-> m, step |-> 3,
                data |-> Step3CompleteData, before |-> ledger,
                exports |-> <<ortho_ok, model_ok, report_ok>>]
    /\ lastRow' = [lastRow EXCEPT ![m] = Record(ledger', headers, m)]
    /\ nops' = nops + 1
    /\ UNCHANGED <<day, schedVars>>

LedgerNext ==
    \/ Tick
    \/ \E m \in ModelIds : InitializeTracking(m)
    \/ \E m \in ModelIds : \E data \in UpdateInputs(day) : UpdateTracking(m, data)
    \/ \E m \in ModelIds : \E extracted \in BOOLEAN : ProcessVideo(m, extracted)
    \/ \E m \in ModelIds : \E ortho_ok, model_ok, report_ok \in BOOLEAN :
           Step3Chunk(m, ortho_ok, model_ok, report_ok)

SpecLedger == LedgerInit /\ [][LedgerNext]_vars


----------------------------------------------------------------------------
(* Claims about the current ledger primitives, checked under SpecLedger *)

\* C4: the ledger header never grows: after any sequence of
\* initialize_tracking and update_tracking calls the header row of the
\* ledger file is the fixed column list of initialize_tracking.
C4_HeaderNeverGrows ==
    (ledger.exists /\ ledger.rows # <<>>) => ledger.rows[1] = headers

\* C5: no record is ever deleted by the ledger primitives: every work item
\* that had a record at some point still has one, holding the field values
\* it had after the last call made for it.
C5_NoRecordDeleted ==
    \A m \in ModelIds :
        lastRow[m] # EmptyDict => Record(ledger, headers, m) = lastRow[m]

\* C7: isolation: a call for one work item (the update recording a failure
\* of A, or a later initialize_tracking / update_tracking for a third item)
\* leaves the record of every other item B in place with all its fields.
C7_OtherRecordsUntouched ==
    hist.op # "none" =>
        \A b \in ModelIds \ {hist.model_id} :
            Record(hist.before, headers, b) # EmptyDict =>
                Record(ledger, headers, b) = Record(hist.before, headers, b)


----------------------------------------------------------------------------
(* The ledger of the _old_2july2025 variant (src/src/_old_2july2025/config.py) *)

MaxOldOps == 3

\* Work item ids handed to the old ledger: two transect names and a name that
\* equals the label of the first column.
OldIds == {"T1", "T2", "Model ID"}

\* _old_2july2025/step1.process_transect: the dict of the tracking update
\* after the engine processing succeeded
old_Step1SuccessData(d) ==
    << <<"Status", "Step 1 complete">>,
       <<"Step 1 complete", "TRUE">>,
       <<"Step 1 start time", Stamp(d)>>,
       <<"Step 1 end time", Stamp(d)>>,
       <<"Step 1 processing time (s)", "1.0">>,
       <<"Aligned cameras", "10">>,
       <<"Total cameras", "10">> >>

\* _old_2july2025/step1.process_transect: the dict of the tracking update in
\* the except branch
old_Step1FailureData ==
    << <<"Status", "Error in Step 1">>,
       <<"Step 1 complete", "FALSE">>,
       <<"Notes", "Error processing model">> >>

\* _old_2july2025/step1.process_batch: {"PSX file": psx_path}
old_PsxFileData(psx_path) == << <<"PSX file", psx_path>> >>

\* _old_2july2025/step1.process_batch: {"Report file": report_file_path}
old_ReportFileData(model_id) == << <<"Report file", model_id \o "_step1.pdf">> >>

\* The dicts the old scripts hand to update_tracking.
old_UpdateInputs(m, d) ==
    {old_Step1SuccessData(d), old_Step1FailureData, old_ReportFileData(m)}

old_Logged(op, m, step, data) ==
    /\ hist' = Call(op, m, step, data, ledger)
    /\ lastRow' = [lastRow EXCEPT ![m] = Record(ledger', old_headers, m)]
    /\ nops' = nops + 1
    /\ UNCHANGED <<day, schedVars>>

OldLedgerInit ==
    /\ ledger = NoFile
    /\ day = 1
    /\ hist = NoCall
    /\ lastRow = [m \in OldIds |-> EmptyDict]
    /\ nops = 0
    /\ max_chunks = DefaultMaxChunks
    /\ IdleScheduler

old_InitializeTracking(m) ==
    /\ nops < MaxOldOps
    /\ ledger' = old_initialize_tracking(ledger, m, day)
    /\ old_Logged("initialize_tracking", m, 0, <<>>)

old_UpdateTracking(m, data) ==
    /\ nops < MaxOldOps
    /\ ledger' = old_update_tracking(ledger, m, data, day)
    /\ old_Logged("update_tracking", m, 0, data)

OldLedgerNext ==
    \/ Tick
    \/ \E m \in OldIds : old_InitializeTracking(m)
    \/ \E m \in OldIds : \E data \in old_UpdateInputs(m, day) : old_UpdateTracking(m, data)

SpecOldLedger == OldLedgerInit /\ [][OldLedgerNext]_vars

----------------------------------------------------------------------------
(* The stage gate of the _old_2july2025 variant: complete_step_tracking,
   should_process_step, mark_step_for_reprocessing *)

MaxGateOps == 2

\* The start_time arguments: None, or the timestamp taken on the first day.
StartTimes == {"", get_current_timestamp(1)}

CompleteStepTracking(m, step_number, start_time) ==
    /\ nops < MaxGateOps
    /\ ledger' = complete_step_tracking(ledger, m, step_number, start_time, <<>>, day)
    /\ old_Logged("complete_step_tracking", m, step_number,
                  complete_step_data(step_number, start_time, <<>>, day))

MarkStepForReprocessing(m, step_number) ==
    /\ nops < MaxGateOps
    /\ ledger' = mark_step_for_reprocessing(ledger, m, step_number, day)
    /\ old_Logged("mark_step_for_reprocessing", m, step_number,
                  mark_step_data(step_number))

StartStepTracking(m, step_number) ==
    /\ nops < MaxGateOps
    /\ ledger' = start_step_tracking(ledger, m, step_number, day)
    /\ old_Logged("start_step_tracking", m, step_number,
                  start_step_data(step_number, day))

\* _old_2july2025/step1.process_transect, except branch: the failure of
\* stage 1 is recorded
RecordStep1Failure(m) ==
    /\ nops < MaxGateOps
    /\ ledger' = old_update_tracking(ledger, m, old_Step1FailureData, day)
    /\ old_Logged("step1_failure", m, 1, old_Step1FailureData)

\* The --steps arguments of reset_selective.py
ResetStepLists == {<<n>> : n \in Steps} \cup {<<2, 3, 4>>}

\* selective_reset_csv([m], steps) without dry_run: nothing when
\* get_transect_status(m) is empty, else every step is marked and the
\* status and the note are written.
SelectiveReset(m, steps) ==
    /\ nops < MaxGateOps
    /\ \E loaded \in {old_get_transect_status_file(ledger, m, day)} :
           ledger' = IF old_get_transect_status(ledger, m) = EmptyDict
                     THEN loaded
                     ELSE old_update_tracking(MarkSteps(loaded, m, steps, 1, day), m,
                                              selective_reset_data(steps, day), day)
    /\ hist' = [op |-> "selective_reset_csv", model_id |-> m, step |-> 0,
                data |-> selective_reset_data(steps, day), before |-> ledger,
                steps |-> steps]
    /\ lastRow' = [lastRow EXCEPT ![m] = Record(ledger', old_headers, m)]
    /\ nops' = nops + 1
    /\ UNCHANGED <<day, schedVars>>

GateInitializeTracking(m) ==
    /\ nops < MaxGateOps
    /\ ledger' = old_initialize_tracking(ledger, m, day)
    /\ old_Logged("initialize_tracking", m, 0, <<>>)

OldGateNext ==
    \/ Tick
    \/ \E m \in OldIds : GateInitializeTracking(m)
    \/ \E m \in OldIds : \E n \in Steps : \E st \in StartTimes :
           CompleteStepTracking(m, n, st)
    \/ \E m \in OldIds : \E n \in Steps : MarkStepForReprocessing(m, n)
    \/ \E m \in OldIds : \E n \in Steps : StartStepTracking(m, n)
    \/ \E m \in OldIds : RecordStep1Failure(m)
    \/ \E m \in OldIds : \E steps \in ResetStepLists : SelectiveReset(m, steps)

SpecOldGate == OldLedgerInit /\ [][OldGateNext]_vars

----------------------------------------------------------------------------
(* Claims about the old ledger *)

\* C1: for every work item and every stage N in 0..4, after
\* complete_step_tracking(item, N, start_time) should_process_step(item, N)
\* is false, and after mark_step_for_reprocessing(item, N)
\* should_process_step(item, N) is true.
C1_CompleteThenMark ==
    /\ hist.op = "complete_step_tracking" =>
           ~should_process_step(ledger, hist.model_id, hist.step)
    /\ hist.op = "mark_step_for_reprocessing" =>
           should_process_step(ledger, hist.model_id, hist.step)

\* A stage was completed and should_process_step still says it has to run.
C1_CompletedStillDue ==
    /\ hist.op = "complete_step_tracking"
    /\ should_process_step(ledger, hist.model_id, hist.step)

\* A key of data is not a column of the old header.
HasUnknownKey(data) ==
    \E k \in 1..Len(data) : IndexOf(old_headers, data[k][1]) = 0

\* The call just made was update_tracking with a key that is not a column.
RejectedUpdate ==
    /\ hist.op = "update_tracking"
    /\ HasUnknownKey(hist.data)

\* C3 as stated: an update_tracking call with a key that is not a column
\* leaves the ledger file equal to the file before the call, whether the
\* item had a record or not.
C3_RejectedChangesNothing ==
    RejectedUpdate => ledger = hist.before

\* C3 amended: an update_tracking call with a key that is not a column
\* persists none of the supplied fields.  If the item had a record the file
\* is the file before the call; if it had none, the file is what
\* initialize_tracking(item) alone leaves and the item's record is the
\* initial one (Status "Initialized").
C3_RejectedPersistsNoField ==
    RejectedUpdate =>
        IF HasRecord(hist.before, hist.model_id)
        THEN ledger = hist.before
        ELSE \E d \in Days :
                 /\ ledger = old_initialize_tracking(hist.before, hist.model_id, d)
                 /\ Record(ledger, old_headers, hist.model_id)
                      = RowDict(old_headers, InitialRow(old_headers, hist.model_id, d))

\* A rejected update for an item with a record, one of whose fields is a
\* column holding another value in the record.
C3_RejectedWithValidField ==
    /\ RejectedUpdate
    /\ HasRecord(hist.before, hist.model_id)
    /\ ledger = hist.before
    /\ \E k \in 1..Len(hist.data) :
           /\ IndexOf(old_headers, hist.data[k][1]) # 0
           /\ Record(hist.before, old_headers, hist.model_id)[hist.data[k][1]]
                # hist.data[k][2]

\* The number of data rows of f whose Model ID is model_id.
RowCount(f, model_id) ==
    Cardinality({i \in 2..Len(f.rows) :
                    /\ Len(f.rows[i]) >= IndexOf(old_headers, "Model ID")
                    /\ f.rows[i][IndexOf(old_headers, "Model ID")] = model_id})

\* C6: after any sequence of initialize_tracking and update_tracking calls
\* with non-empty ids the ledger has exactly one data row per id ever
\* passed and no data row with an empty Model ID, and initialize_tracking
\* for an item that has a record changes nothing.  Stated call by call: the
\* id of the call has exactly one row afterwards, every id that had a row
\* before the call still has exactly one, and no id has two.
C6_OneRowPerId ==
    /\ \A i \in 2..Len(ledger.rows) :
           Len(ledger.rows[i]) > 0 /\ ledger.rows[i][1] # ""
    /\ \A b \in OldIds : RowCount(ledger, b) <= 1
    /\ hist.op # "none" =>
           /\ RowCount(ledger, hist.model_id) = 1
           /\ \A b \in OldIds :
                  RowCount(hist.before, b) = 1 => RowCount(ledger, b) = 1
    /\ (hist.op = "initialize_tracking" /\ RowCount(hist.before, hist.model_id) = 1) =>
           ledger = hist.before

\* A call has removed the row of an item that had one.
C6_RowLost ==
    /\ hist.op # "none"
    /\ \E b \in OldIds : RowCount(hist.before, b) = 1 /\ RowCount(ledger, b) = 0


----------------------------------------------------------------------------
(* The step-1 scheduler: main, process_batch and process_transect of
   src/src/step1_isolated.py, and of src/src/_old_2july2025/step1.py where
   the parameter old is TRUE *)

MaxRuns == 2

MaxK == 2

\* os.listdir(DIRECTORIES["frames"]): the transect directories with frames
TransectDirs == <<"T1", "T2">>

\* datetime.now().strftime("%Y%m%d")
DateStamp(d) == "2025070" \o ToString(d)

\* process_batch: psx_path
PsxPath(batch_num, d) ==
    "psx_" \o ToString(batch_num) \o "_" \o DateStamp(d) \o ".psx"

\* _old_2july2025 process_batch: psx_path
old_PsxPath(transects, batch_num, d, K) ==
    IF Len(transects) = 1 /\ K = 1
    THEN transects[1] \o "_" \o DateStamp(d) \o ".psx"
    ELSE PsxPath(batch_num, d)

\* process_transect: the dict of the tracking update after the engine
\* processing succeeded
Step1SuccessData(d) ==
    << <<"Status", "Step 1 complete">>,
       <<"Step 1 complete", "True">>,
       <<"Step 1 start time", Stamp(d)>>,
       <<"Step 1 end time", Stamp(d)>>,
       <<"Step 1 processing time (s)", "1.0">>,
       <<"Aligned cameras", "10">>,
       <<"Total cameras", "10">> >>

\* The failure dict of a process_transect that records the stage as done.
Step1FailureData_done(d) ==
    << <<"Status", "Error in Step 1">>,
       <<"Step 1 complete", "True">>,
       <<"Step 1 error time", Stamp(d)>>,
       <<"Notes", "Error processing model">> >>

\* process_transect: the dict of the tracking update in the except branch
Step1FailureData(d) ==
    << <<"Status", "Error in Step 1">>,
       <<"Step 1 complete", "False">>,
       <<"Step 1 error time", Stamp(d)>>,
       <<"Notes", "Error processing model">> >>

\* main and process_batch: status.get("Step 1 complete", "False")
Step1Complete(f, m) == Get(get_transect_status(f, m), "Step 1 complete", "False")

\* main: unprocessed_transects
Unprocessed(f) == SelectSeq(TransectDirs, LAMBDA m : Step1Complete(f, m) # "True")

\* _old_2july2025 main and process_batch:
\* status.get("Step 1 complete", "False").upper()
old_Step1Complete(f, m) ==
    Upper(Get(old_get_transect_status(f, m), "Step 1 complete", "False"))

\* _old_2july2025 main: unprocessed_transects
old_Unprocessed(f) ==
    SelectSeq(TransectDirs, LAMBDA m : old_Step1Complete(f, m) # "TRUE")

\* The file after the get_transect_status calls of main's filter loop
RECURSIVE old_StatusReads(_, _, _, _)
old_StatusReads(f, dirs, i, d) ==
    IF i > Len(dirs) THEN f
    ELSE old_StatusReads(old_get_transect_status_file(f, dirs[i], d), dirs, i + 1, d)

\* The split without the final "if current_batch: batches.append".
RECURSIVE SplitFrom_drop(_, _, _, _, _)
SplitFrom_drop(u, i, K, done, current_batch) ==
    IF i > Len(u) THEN done
    ELSE IF Len(current_batch) >= K
         THEN SplitFrom_drop(u, i + 1, K, Append(done, current_batch), <<u[i]>>)
         ELSE SplitFrom_drop(u, i + 1, K, done, Append(current_batch, u[i]))

\* main: the loop that splits unprocessed_transects into batches, from
\* entry i on
RECURSIVE SplitFrom(_, _, _, _, _)
SplitFrom(u, i, K, done, current_batch) ==
    IF i > Len(u)
    THEN IF current_batch # <<>> THEN Append(done, current_batch) ELSE done
    ELSE IF Len(current_batch) >= K
         THEN SplitFrom(u, i + 1, K, Append(done, current_batch), <<u[i]>>)
         ELSE SplitFrom(u, i + 1, K, done, Append(current_batch, u[i]))

\* The split with the test len(current_batch) > MAX_CHUNKS_PER_PSX.
RECURSIVE SplitFrom_gt(_, _, _, _, _)
SplitFrom_gt(u, i, K, done, current_batch) ==
    IF i > Len(u)
    THEN IF current_batch # <<>> THEN Append(done, current_batch) ELSE done
    ELSE IF Len(current_batch) > K
         THEN SplitFrom_gt(u, i + 1, K, Append(done, current_batch), <<u[i]>>)
         ELSE SplitFrom_gt(u, i + 1, K, done, Append(current_batch, u[i]))

SplitBatches_gt(u, K) == SplitFrom_gt(u, 1, K, <<>>, <<>>)

\* main: batches
SplitBatches(u, K) == SplitFrom(u, 1, K, <<>>, <<>>)

\* dict[key] = value on a dict kept as a sequence of <<key, value>>
DictSet(dict, key, value) ==
    IF \E i \in 1..Len(dict) : dict[i][1] = key
    THEN LET i == CHOOSE j \in 1..Len(dict) : dict[j][1] = key
         IN  SubSeq(dict, 1, i - 1) \o << <<key, value>> >> \o SubSeq(dict, i + 1, Len(dict))
    ELSE Append(dict, <<key, value>>)

\* main: the rows of "data", one per transect of every batch_mapping entry
\* from entry i on
RECURSIVE SummaryRows(_, _, _)
SummaryRows(bm, i, d) ==
    IF i > Len(bm) THEN <<>>
    ELSE LET RowsOf[j \in 0..Len(bm[i][2])] ==
                 IF j = 0 THEN <<>>
                 ELSE Append(RowsOf[j - 1], <<bm[i][1], bm[i][2][j], Stamp(d)>>)
         IN  RowsOf[Len(bm[i][2])] \o SummaryRows(bm, i + 1, d)

\* main: pd.DataFrame(data).to_csv(summary_path, index=False); without rows
\* the frame has no columns and the file is one empty line.
SummaryFile(bm, d) ==
    IF SummaryRows(bm, 1, d) = <<>> THEN CsvFile(<< <<>> >>)
    ELSE CsvFile(<< <<"PSX File", "Model ID", "Date Processed">> >> \o SummaryRows(bm, 1, d))

\* process_batch: {"PSX file": psx_path}
PsxFileData(psx_path) == << <<"PSX file", psx_path>> >>

\* process_batch: {"Report file": report_file_path}
ReportFileData(model_id) == << <<"Report file", model_id \o "_step1.pdf">> >>

\* update_tracking of the config module the script imports
Track(old, f, model_id, data, d) ==
    IF old THEN old_update_tracking(f, model_id, data, d)
    ELSE update_tracking(f, model_id, data, d)

\* process_batch: the transect of the loop, and psx_path
CurTransect == batches[bi][ti]

CurPath(old) ==
    IF old THEN old_PsxPath(batches[bi], bi, day, max_chunks) ELSE PsxPath(bi, day)

\* The containers for which process_batch has returned in this run, and the
\* closed containers of all runs once this run has ended.
ClosedNow(bm) == {bm[i][1] : i \in 1..Len(bm)}

SealedAfter(bm, files) ==
    [p \in DOMAIN sealed \cup ClosedNow(bm) |->
        IF p \in ClosedNow(bm) THEN files[p] ELSE sealed[p]]

\* The ledger after step 0 extracted the frames of every transect directory:
\* the header and, for each directory, the record process_video leaves.
AfterStep0 ==
    LET RowsUpTo[i \in 0..Len(TransectDirs)] ==
            IF i = 0 THEN <<headers>>
            ELSE Append(RowsUpTo[i - 1],
                        process_video(NoFile, TransectDirs[i], TRUE, 1).rows[2])
    IN  CsvFile(RowsUpTo[Len(TransectDirs)])

\* The old ledger after _old_2july2025/step0 called initialize_tracking for
\* every transect directory.
old_AfterStep0 ==
    LET RowsUpTo[i \in 0..Len(TransectDirs)] ==
            IF i = 0 THEN <<old_headers>>
            ELSE Append(RowsUpTo[i - 1], InitialRow(old_headers, TransectDirs[i], 1))
    IN  CsvFile(RowsUpTo[Len(TransectDirs)])

SchedulerInit(old) ==
    /\ ledger = IF old THEN old_AfterStep0 ELSE AfterStep0
    /\ day = 1
    /\ hist = NoCall
    /\ lastRow = [m \in ModelIds |-> EmptyDict]
    /\ nops = 0
    /\ max_chunks \in 1..MaxK
    /\ IdleScheduler

\* main up to the first process_batch call: the filter for unprocessed
\* transects, the early return, the batches.
StartRunV(old) ==
    /\ pc = "idle"
    /\ runlog.runs < MaxRuns
    /\ ledger' = IF old THEN old_StatusReads(ledger, TransectDirs, 1, day) ELSE ledger
    /\ LET u == IF old THEN old_Unprocessed(ledger) ELSE Unprocessed(ledger)
       IN  IF u = <<>>
           THEN /\ runlog' = [runlog EXCEPT !.runs = @ + 1, !.n = 0, !.ok = {},
                                            !.written = {}, !.finished = TRUE,
                                            !.selected = {}, !.bad = {},
                                            !.end = "returned"]
                /\ UNCHANGED <<pc, batches, bi, ti, doc, results, batch_mapping>>
           ELSE /\ runlog' = [runlog EXCEPT !.runs = @ + 1, !.n = Len(u), !.ok = {},
                                            !.written = {}, !.finished = FALSE,
                                            !.selected = {u[i] : i \in 1..Len(u)},
                                            !.bad = {}, !.end = "running",
                                            !.alloc = Append(@, 1)]
                /\ batches' = SplitBatches(u, max_chunks)
                /\ batch_mapping' = <<>>
                /\ bi' = 1
                /\ ti' = 1
                /\ doc' = <<>>
                /\ results' = <<>>
                /\ pc' = "item"
    /\ UNCHANGED <<day, hist, lastRow, nops, max_chunks, project, psx_files, summary, sealed>>

\* process_batch, top of the loop: the already-processed check, else
\* doc.addChunk().
BeginTransectV(old) ==
    /\ pc = "item"
    /\ ledger' = IF old THEN old_get_transect_status_file(ledger, CurTransect, day)
                 ELSE ledger
    /\ IF (IF old THEN old_Step1Complete(ledger, CurTransect) = "TRUE"
                  ELSE Step1Complete(ledger, CurTransect) = "True")
       THEN /\ IF ti < Len(batches[bi])
               THEN ti' = ti + 1 /\ pc' = "item"
               ELSE ti' = ti /\ pc' = "final_save"
            /\ doc' = doc
       ELSE /\ doc' = Append(doc, [label |-> "", built |-> FALSE])
            /\ pc' = "engine"
            /\ ti' = ti
    /\ UNCHANGED <<day, hist, lastRow, nops, max_chunks, project, batches, bi, results,
                   batch_mapping, psx_files, summary, sealed, runlog>>

\* process_transect returns True: the completion update; then process_batch
\* records the result, the PSX path and, if the report export worked, the
\* report path.
EngineSucceedsV(old, report_ok) ==
    /\ pc = "engine"
    /\ \E f1 \in {Track(old, ledger, CurTransect,
                        IF old THEN old_Step1SuccessData(day) ELSE Step1SuccessData(day),
                        day)} :
       \E f2 \in {Track(old, f1, CurTransect, PsxFileData(CurPath(old)), day)} :
           ledger' = IF report_ok
                     THEN Track(old, f2, CurTransect, ReportFileData(CurTransect), day)
                     ELSE f2
    /\ doc' = SubSeq(doc, 1, Len(doc) - 1) \o <<[label |-> CurTransect, built |-> TRUE]>>
    /\ results' = Append(results, CurTransect)
    /\ runlog' = [runlog EXCEPT !.ok = @ \cup {CurTransect}, !.failed = @ \ {CurTransect},
                                !.interrupted = @ \ {CurTransect}]
    /\ pc' = "save"
    /\ UNCHANGED <<day, hist, lastRow, nops, max_chunks, project, batches, bi, ti,
                   batch_mapping, psx_files, summary, sealed>>

\* process_transect catches an exception of the engine: the failure update,
\* returns False.
EngineFailsV(old) ==
    /\ pc = "engine"
    /\ LET m == CurTransect
       IN  /\ ledger' = Track(old, ledger, m,
                              IF old THEN old_Step1FailureData ELSE Step1FailureData(day), day)
           /\ doc' = SubSeq(doc, 1, Len(doc) - 1) \o <<[label |-> m, built |-> FALSE]>>
           /\ runlog' = [runlog EXCEPT !.failed = @ \cup {m}, !.interrupted = @ \ {m},
                                       !.bad = @ \cup {m}]
    /\ pc' = "save"
    /\ UNCHANGED <<day, hist, lastRow, nops, max_chunks, project, batches, bi, ti, results,
                   batch_mapping, psx_files, summary, sealed>>

\* process_batch: doc.save(psx_path) after the transect.
SaveDocV(old) ==
    /\ pc = "save"
    /\ psx_files' = (CurPath(old) :> doc) @@ psx_files
    /\ runlog' = [runlog EXCEPT !.written = @ \cup {CurPath(old)}]
    /\ IF ti < Len(batches[bi])
       THEN ti' = ti + 1 /\ pc' = "item"
       ELSE ti' = ti /\ pc' = "final_save"
    /\ UNCHANGED <<ledger, day, hist, lastRow, nops, max_chunks, project, batches, bi, doc,
                   results, batch_mapping, sealed, summary>>

\* process_batch: the final doc.save and the return; main merges the result
\* and goes on with the next batch.  The old main ends after the last batch.
FinalSaveV(old) ==
    /\ pc = "final_save"
    /\ psx_files' = (CurPath(old) :> doc) @@ psx_files
    /\ batch_mapping' = DictSet(batch_mapping, CurPath(old), results)
    /\ IF bi < Len(batches)
       THEN /\ bi' = bi + 1
            /\ ti' = 1
            /\ doc' = <<>>
            /\ results' = <<>>
            /\ pc' = "item"
            /\ runlog' = [runlog EXCEPT !.written = @ \cup {CurPath(old)},
                                        !.alloc = Append(@, bi + 1)]
            /\ sealed' = sealed
       ELSE /\ UNCHANGED <<bi, ti, doc, results>>
            /\ pc' = IF old THEN "idle" ELSE "summary"
            /\ runlog' = [runlog EXCEPT !.written = @ \cup {CurPath(old)},
                                        !.finished = old,
                                        !.end = IF old THEN "returned" ELSE @]
            /\ sealed' = IF old THEN SealedAfter(batch_mapping', psx_files') ELSE sealed
    /\ UNCHANGED <<ledger, day, hist, lastRow, nops, max_chunks, project, batches, summary>>

\* main: the batch summary is written and main returns.
WriteSummary ==
    /\ pc = "summary"
    /\ summary' = SummaryFile(batch_mapping, day)
    /\ pc' = "idle"
    /\ runlog' = [runlog EXCEPT !.finished = TRUE, !.end = "returned"]
    /\ sealed' = SealedAfter(batch_mapping, psx_files)
    /\ UNCHANGED <<ledger, day, hist, lastRow, nops, max_chunks, project, batches, bi, ti, doc,
                   results, batch_mapping, psx_files>>

\* The process has ended before main returned: what is in memory is lost,
\* the files stay as they are.
Ended(how) ==
    /\ pc' = "idle"
    /\ runlog' = [runlog EXCEPT !.finished = FALSE, !.end = how,
                     !.interrupted = IF pc = "engine" THEN @ \cup {CurTransect} ELSE @]
    /\ sealed' = SealedAfter(batch_mapping, psx_files)
    /\ batches' = <<>>
    /\ bi' = 0
    /\ ti' = 0
    /\ doc' = <<>>
    /\ results' = <<>>
    /\ batch_mapping' = <<>>
    /\ UNCHANGED <<ledger, day, hist, lastRow, nops, max_chunks, project, psx_files, summary>>

\* The process is killed at any point of a run.
Kill ==
    /\ pc # "idle"
    /\ Ended("killed")

\* doc.save(psx_path) raises: process_batch and main have no handler around
\* it, the exception ends main.
SaveFails ==
    /\ pc \in {"save", "final_save"}
    /\ Ended("exception")

StartRun == StartRunV(FALSE)
BeginTransect == BeginTransectV(FALSE)
EngineSucceeds(report_ok) == EngineSucceedsV(FALSE, report_ok)
EngineFails == EngineFailsV(FALSE)
SaveDoc == SaveDocV(FALSE)
FinalSave == FinalSaveV(FALSE)

Step1Init == SchedulerInit(FALSE)

Step1Next ==
    \/ Tick
    \/ StartRun
    \/ BeginTransect
    \/ \E report_ok \in BOOLEAN : EngineSucceeds(report_ok)
    \/ EngineFails
    \/ SaveDoc
    \/ FinalSave
    \/ WriteSummary
    \/ Kill
    \/ SaveFails

SpecStep1 == Step1Init /\ [][Step1Next]_vars

old_StartRun == StartRunV(TRUE)
old_BeginTransect == BeginTransectV(TRUE)
old_EngineSucceeds(report_ok) == EngineSucceedsV(TRUE, report_ok)
old_EngineFails == EngineFailsV(TRUE)
old_SaveDoc == SaveDocV(TRUE)
old_FinalSave == FinalSaveV(TRUE)

old_Step1Init == SchedulerInit(TRUE)

old_Step1Next ==
    \/ Tick
    \/ old_StartRun
    \/ old_BeginTransect
    \/ \E report_ok \in BOOLEAN : old_EngineSucceeds(report_ok)
    \/ old_EngineFails
    \/ old_SaveDoc
    \/ old_FinalSave
    \/ Kill
    \/ SaveFails

SpecOldStep1 == old_Step1Init /\ [][old_Step1Next]_vars


----------------------------------------------------------------------------
(* Claims about the step-1 scheduler *)

\* The items whose latest attempt at step 1 failed or was cut off by the end
\* of the process before the completion update.
Pending == runlog.failed \cup runlog.interrupted

Ceil(n, K) == (n + K - 1) \div K

\* main has returned from a run that had transects to process.
RunCompleted == pc = "idle" /\ runlog.finished /\ runlog.n >= 1

\* The containers named in the batch manifest and the rows of one of them.
ManifestContainers == {summary.rows[i][1] : i \in 2..Len(summary.rows)}

ManifestRows(c) == {i \in 2..Len(summary.rows) : summary.rows[i][1] = c}

\* The batches of the run with a transect that was processed successfully.
BatchesWithSuccess ==
    {b \in 1..Len(batches) : \E t \in 1..Len(batches[b]) : batches[b][t] \in runlog.ok}

\* C8 as stated: after every completed run over n unprocessed items with
\* capacity K no container has more than K items in the manifest and the
\* manifest names ceil(n / K) containers, also when items failed.
C8_ManifestContainerCount ==
    RunCompleted =>
        /\ \A c \in ManifestContainers : Cardinality(ManifestRows(c)) <= max_chunks
        /\ Cardinality(ManifestContainers) = Ceil(runlog.n, max_chunks)

\* C8 amended: after every completed run over n >= 1 unprocessed items with
\* capacity K no container has more than K items in the manifest and the
\* run has written ceil(n / K) container files; the manifest names the
\* containers that hold at least one successfully processed item, which are
\* ceil(n / K) when no item failed and never more.
C8_ManifestCapacity ==
    RunCompleted =>
        /\ \A c \in ManifestContainers : Cardinality(ManifestRows(c)) <= max_chunks
        /\ Cardinality(runlog.written) = Ceil(runlog.n, max_chunks)
        /\ Cardinality(ManifestContainers) = Cardinality(BatchesWithSuccess)
        /\ Cardinality(ManifestContainers) <= Ceil(runlog.n, max_chunks)
        /\ Cardinality(runlog.ok) = runlog.n =>
               Cardinality(ManifestContainers) = Ceil(runlog.n, max_chunks)

\* A completed run whose manifest names some containers, but fewer than it
\* wrote, because every item of a batch failed.
C8_BatchMissingFromManifest ==
    /\ RunCompleted
    /\ ManifestContainers # {}
    /\ Cardinality(ManifestContainers) < Ceil(runlog.n, max_chunks)

\* The labels of the chunks of a container.
ChunkLabels(chunks) == {chunks[i].label : i \in 1..Len(chunks)}

\* C10: a container closed by an earlier run is never written again by a
\* later run: it holds the same set of chunks as when that run ended.
C10_ClosedContainersKept ==
    \A p \in DOMAIN sealed : ChunkLabels(psx_files[p]) = ChunkLabels(sealed[p])

\* A later run has saved over a container of an earlier run and a chunk that
\* had been built in it is no longer in the file.
C10_BuiltChunkLost ==
    \E p \in DOMAIN sealed : \E i \in 1..Len(sealed[p]) :
        /\ sealed[p][i].built
        /\ sealed[p][i].label \notin ChunkLabels(psx_files[p])

\* The old main has returned from a run in which the engine processing of
\* every item succeeded.
old_RunAllSucceeded ==
    /\ pc = "idle"
    /\ runlog.finished
    /\ runlog.n >= 1
    /\ Cardinality(runlog.ok) = runlog.n

\* C9: in the _old_2july2025 variant, after a run in which the engine
\* processing of every item succeeded every item's 'Step 1 complete' is the
\* complete sentinel and a repeated run selects no item.
C9_CompleteAfterSuccess ==
    old_RunAllSucceeded =>
        /\ \A m \in runlog.ok : old_Step1Complete(ledger, m) = "TRUE"
        /\ old_Unprocessed(ledger) = <<>>

\* After a run in which every item succeeded the filter of the old main
\* selects every transect again.
C9_AllSelectedAgain ==
    /\ old_RunAllSucceeded
    /\ runlog.n = Len(TransectDirs)
    /\ old_Unprocessed(ledger) = TransectDirs

\* C11: whenever step 1 allocates a new batch its batch number is greater
\* than every batch number allocated before in the project, in this run or
\* in an earlier one, and the first batch ever is number 1.
C11_BatchNumbersIncrease ==
    \A i \in 1..Len(runlog.alloc) :
        IF i = 1 THEN runlog.alloc[1] = 1
        ELSE \A j \in 1..(i - 1) : runlog.alloc[i] > runlog.alloc[j]

\* A run has allocated a batch number that an earlier run had already used,
\* and a container of the earlier run is closed on disk.
C11_BatchNumberReused ==
    /\ runlog.runs >= 2
    /\ DOMAIN sealed # {}
    /\ \E i \in 1..Len(runlog.alloc) : \E j \in 1..(i - 1) :
           runlog.alloc[i] <= runlog.alloc[j]

\* The containers on disk that hold a chunk labelled m.
ContainersOf(m) == {p \in DOMAIN psx_files : m \in ChunkLabels(psx_files[p])}

\* C12: after any sequence of step-1 runs, also with an item that fails and
\* is retried by a later run, every work item has a chunk in at most one
\* container.
C12_OneContainerPerItem ==
    \A i \in 1..Len(TransectDirs) : Cardinality(ContainersOf(TransectDirs[i])) <= 1

\* An item that failed in one run and was processed again by a later run
\* has a chunk in two container files.
C12_ChunkInTwoContainers ==
    \E i \in 1..Len(TransectDirs) :
        /\ Cardinality(ContainersOf(TransectDirs[i])) >= 2
        /\ TransectDirs[i] \in runlog.ok

\* The (container, work item) rows of psx_batch_summary.csv.
ManifestPairs ==
    {<<summary.rows[i][1], summary.rows[i][2]>> : i \in 2..Len(summary.rows)}

\* The ('PSX file', 'Model ID') pairs of the ledger records whose
\* 'Step 1 complete' is "True".
LedgerPairs ==
    {<<Cell(ledger.rows[1], ledger.rows[i], "PSX file"),
       Cell(ledger.rows[1], ledger.rows[i], "Model ID")>> :
        i \in {j \in 2..Len(ledger.rows) :
                  Cell(ledger.rows[1], ledger.rows[j], "Step 1 complete") = "True"}}

\* C13: after every completed step-1 run, also one that processes only the
\* items an earlier run left over, the rows of the batch manifest are the
\* ('PSX file', 'Model ID') pairs of the ledger records whose step 1 is
\* complete.
C13_ManifestEqualsLedger ==
    RunCompleted => ManifestPairs = LedgerPairs

\* A completed run has left a manifest without the row of an item that the
\* ledger records as complete with its container.
C13_ManifestMissesItem ==
    /\ RunCompleted
    /\ ManifestPairs # {}
    /\ \E pr \in LedgerPairs : pr \notin ManifestPairs

----------------------------------------------------------------------------
(* Claims about start_step_tracking and the Notes column of the old ledger *)

\* The record of the item of the last call, read over the columns cols.
RecordAfterCall(cols) == Record(ledger, cols, hist.model_id)

\* C14: after start_step_tracking(item, N) returns t, for N in 0..4, the
\* item's record has Status 'Step N in progress', stores t as the start time
\* of stage N, and its completion flag for stage N is the one it had before
\* the call.
C14_StartRecorded ==
    hist.op = "start_step_tracking" =>
        LET start_col == StepStr(hist.step) \o " start time"
            flag_col  == StepStr(hist.step) \o " complete"
            after  == RecordAfterCall(<<"Status", start_col, flag_col>>)
            before == Record(hist.before, <<flag_col>>, hist.model_id)
        IN  /\ after # EmptyDict
            /\ after["Status"] = StepStr(hist.step) \o " in progress"
            /\ after[start_col] = hist.data[1][2]
            /\ before # EmptyDict => after[flag_col] = before[flag_col]

\* start_step_tracking has returned for an item that had a record, and the
\* record has neither the status nor the start time.
C14_StartNotRecorded ==
    /\ hist.op = "start_step_tracking"
    /\ HasRecord(hist.before, hist.model_id)
    /\ RecordAfterCall(<<"Status">>)["Status"] # StepStr(hist.step) \o " in progress"
    /\ ledger = hist.before

\* The Notes value of the item of the last call in file f ("" without record).
NotesIn(f) ==
    IF HasRecord(f, hist.model_id)
    THEN Record(f, <<"Notes">>, hist.model_id)["Notes"]
    ELSE ""

\* The note handed over by the last call.
NewNote == hist.data[CHOOSE k \in 1..Len(hist.data) : hist.data[k][1] = "Notes"][2]

\* The last call recorded a stage failure, or applied a selective reset to
\* an item that has a record.
NoteWritten ==
    \/ hist.op = "step1_failure"
    \/ hist.op = "selective_reset_csv" /\ HasRecord(hist.before, hist.model_id)

\* C15: the Notes field is append-only: after a stage failure is recorded
\* for an item, and after a selective reset is applied to an item, the
\* item's Notes value is its previous Notes content followed by the new
\* error description or audit note.
C15_NotesAppendOnly ==
    NoteWritten =>
        LET old   == NotesIn(hist.before)
            after == NotesIn(ledger)
        IN  /\ Len(after) >= Len(old) + Len(NewNote)
            /\ SubSeq(after, 1, Len(old)) = old
            /\ SubSeq(after, Len(after) - Len(NewNote) + 1, Len(after)) = NewNote

\* The item had a note, and after the call its Notes value is the new note
\* alone.
C15_NoteDiscarded ==
    /\ NoteWritten
    /\ NotesIn(hist.before) # ""
    /\ NotesIn(hist.before) # NewNote
    /\ NotesIn(ledger) = NewNote

----------------------------------------------------------------------------
(* Claims about step 3 *)

\* The exports of the chunk step 3 has just handled all succeeded.
AllExported == \A i \in 1..3 : hist.exports[i]

\* C16: in step 3 the item's 'Step 3 complete' flag is set to complete only
\* if the orthomosaic export, the model export and the report export of the
\* chunk all succeeded; if one of them failed the flag is not complete and
\* the failure is recorded instead.
C16_CompleteOnlyIfExported ==
    hist.op = "step3_chunk" =>
        LET rec == Record(ledger, <<"Status", "Step 3 complete">>, hist.model_id)
        IN  /\ rec["Step 3 complete"] = "True" => AllExported
            /\ ~AllExported => rec["Status"] # "Step 3 complete"

\* A chunk whose orthomosaic export failed is recorded with
\* 'Step 3 complete' = "True".
C16_CompleteAfterFailedExport ==
    /\ hist.op = "step3_chunk"
    /\ ~hist.exports[1]
    /\ Record(ledger, <<"Step 3 complete">>, hist.model_id)["Step 3 complete"] = "True"

----------------------------------------------------------------------------
(* Claims about a step-1 run that meets failures *)

\* The run has ended by itself: main returned or left with an exception.
RunEnded ==
    /\ pc = "idle"
    /\ runlog.n >= 1
    /\ runlog.end \in {"returned", "exception"}

\* C17: within one step-1 run every work item selected as unprocessed is
\* attempted and ends the run recorded as completed or as failed, whatever
\* failed for the items before it (an engine exception at any engine call,
\* saving the container included).
C17_EverySelectedAttempted ==
    RunEnded => runlog.selected \subseteq (runlog.ok \cup runlog.bad)

\* A run has ended with an exception of doc.save and a selected item was
\* never attempted: its record has no outcome of stage 1.
C17_SelectedNeverAttempted ==
    /\ RunEnded
    /\ runlog.end = "exception"
    /\ \E m \in runlog.selected \ (runlog.ok \cup runlog.bad) :
           /\ Step1Complete(ledger, m) # "True"
           /\ Get(get_transect_status(ledger, m), "Status", "") # "Error in Step 1"

----------------------------------------------------------------------------
(* Step 1 after a step 0 that did not complete every item *)

\* How step0.process_video ended for a video: the frames were extracted, the
\* extraction raised, or the process was killed while ffmpeg was writing
\* frames (initialize_tracking done, no tracking update yet).  The frames
\* directory exists in all three cases.
Step0Outcomes == {"extracted", "failed", "killed"}

\* The ledger after step 0 ended for the transects as outcome says.
Step0Ledger(outcome) ==
    LET After[i \in 0..Len(TransectDirs)] ==
            IF i = 0 THEN NoFile
            ELSE IF outcome[i] = "killed"
                 THEN initialize_tracking(After[i - 1], TransectDirs[i], 1)
                 ELSE process_video(After[i - 1], TransectDirs[i],
                                    outcome[i] = "extracted", 1)
    IN  After[Len(TransectDirs)]

StagedInit ==
    /\ ledger \in {Step0Ledger(o) : o \in [1..Len(TransectDirs) -> Step0Outcomes]}
    /\ day = 1
    /\ hist = NoCall
    /\ lastRow = [m \in ModelIds |-> EmptyDict]
    /\ nops = 0
    /\ max_chunks \in 1..MaxK
    /\ IdleScheduler

\* The runs of step 1 that nothing interrupts.
StagedNext ==
    \/ StartRun
    \/ BeginTransect
    \/ \E report_ok \in BOOLEAN : EngineSucceeds(report_ok)
    \/ EngineFails
    \/ SaveDoc
    \/ FinalSave
    \/ WriteSummary

SpecStaged == StagedInit /\ [][StagedNext]_vars

Step0Complete(f, m) == Get(get_transect_status(f, m), "Step 0 complete", "False")

\* C18: stages are sequential per work item: step 1 processes an item, and
\* sets its 'Step 1 complete' flag, only if the item's 'Step 0 complete'
\* flag is complete at that time.
C18_Step1OnlyAfterStep0 ==
    \A i \in 1..Len(TransectDirs) :
        LET m == TransectDirs[i]
        IN  (m \in runlog.selected \/ Step1Complete(ledger, m) = "True")
                => Step0Complete(ledger, m) = "True"

\* Step 1 has built the model of an item and recorded 'Step 1 complete' for
\* it while its 'Step 0 complete' flag is not complete.
C18_Step1WithoutStep0 ==
    \E m \in runlog.ok :
        /\ Step1Complete(ledger, m) = "True"
        /\ Step0Complete(ledger, m) # "True"

----------------------------------------------------------------------------
(* The old ledger when a write is interrupted *)

\* open(tracking_file, 'w') followed by writer.writerows(rows): the file is
\* truncated, then the rows are written in order.  A process killed, or a
\* write failing, in between leaves the first k rows; before the open it
\* leaves the file as it was.
InterruptedFiles(before, after) ==
    IF after = before THEN {before}
    ELSE {before} \cup {CsvFile(SubSeq(after.rows, 1, k)) : k \in 0..Len(after.rows)}

\* A call of op for m that would leave the file after is interrupted.
Interrupted(op, m, data, after) ==
    /\ nops < MaxOldOps
    /\ ledger' \in InterruptedFiles(ledger, after)
    /\ hist' = [op |-> op, model_id |-> m, step |-> 0, data |-> data,
                before |-> ledger, intended |-> after]
    /\ lastRow' = [lastRow EXCEPT ![m] = Record(ledger', old_headers, m)]
    /\ nops' = nops + 1
    /\ UNCHANGED <<day, schedVars>>

InterruptedInitialize(m) ==
    Interrupted("interrupted_initialize", m, <<>>,
                old_initialize_tracking(ledger, m, day))

InterruptedUpdate(m, data) ==
    Interrupted("interrupted_update", m, data,
                old_update_tracking(ledger, m, data, day))

OldCrashNext ==
    \/ Tick
    \/ \E m \in OldIds : old_InitializeTracking(m)
    \/ \E m \in OldIds : \E data \in old_UpdateInputs(m, day) : old_UpdateTracking(m, data)
    \/ \E m \in OldIds : InterruptedInitialize(m)
    \/ \E m \in OldIds : \E data \in old_UpdateInputs(m, day) : InterruptedUpdate(m, data)

SpecOldCrash == OldLedgerInit /\ [][OldCrashNext]_vars

WasInterrupted == hist.op \in {"interrupted_initialize", "interrupted_update"}

\* C19: update_tracking and initialize_tracking are atomic with respect to
\* interruption: after a call that was killed or whose write failed, the
\* ledger file holds the complete contents from before the call or the
\* complete contents after it.
C19_WriteAtomic ==
    WasInterrupted => ledger \in {hist.before, hist.intended}

\* An interrupted call has left a file that lacks the record of an item
\* that had one before the call and would have had one after it.
C19_RecordLostByInterruption ==
    /\ WasInterrupted
    /\ \E b \in OldIds :
           /\ RowCount(hist.before, b) = 1
           /\ RowCount(hist.intended, b) = 1
           /\ RowCount(ledger, b) = 0

----------------------------------------------------------------------------
(* The old ledger loaded from a file whose header row is duplicated *)

MaxHealOps == 2

\* The header rows a ledger file of the project can have: the schema of
\* _old_2july2025/config.py, or the one src/src/config.py writes.
FileHeaders == {old_headers, headers}

\* The records behind the duplicated header: none, one, two.
RecordIdLists == {<<>>, <<"T1">>, <<"T1", "T2">>}

\* A ledger file whose first data row duplicates its header row h.
DuplicatedHeaderFile(h, ids) ==
    LET RowsUpTo[i \in 0..Len(ids)] ==
            IF i = 0 THEN <<h, h>>
            ELSE Append(RowsUpTo[i - 1], InitialRow(h, ids[i], 1))
    IN  CsvFile(RowsUpTo[Len(ids)])

HealInit ==
    /\ ledger \in {DuplicatedHeaderFile(h, ids) : h \in FileHeaders, ids \in RecordIdLists}
    /\ day = 1
    /\ hist = NoCall
    /\ lastRow = [m \in OldIds |-> EmptyDict]
    /\ nops = 0
    /\ max_chunks = DefaultMaxChunks
    /\ IdleScheduler

\* get_transect_status(m): the load and what it does to the file
HealGetTransectStatus(m) ==
    /\ nops < MaxHealOps
    /\ ledger' = old_get_transect_status_file(ledger, m, day)
    /\ old_Logged("get_transect_status", m, 0, <<>>)

HealInitializeTracking(m) ==
    /\ nops < MaxHealOps
    /\ ledger' = old_initialize_tracking(ledger, m, day)
    /\ old_Logged("initialize_tracking", m, 0, <<>>)

HealNext ==
    \/ Tick
    \/ \E m \in OldIds : HealGetTransectStatus(m)
    \/ \E m \in OldIds : HealInitializeTracking(m)

SpecOldHeal == HealInit /\ [][HealNext]_vars

\* The header of f is the fixed schema and no data row of f equals it.
Healed(f) ==
    /\ f.exists
    /\ Len(f.rows) >= 1
    /\ f.rows[1] = old_headers
    /\ \A i \in 2..Len(f.rows) : f.rows[i] # f.rows[1]

\* C20: given a ledger file whose first data row duplicates the header row,
\* the next load (get_transect_status or initialize_tracking) leaves a
\* ledger whose header equals the fixed schema and in which no data row
\* equals the header, and a subsequent initialize_tracking(item) yields
\* exactly one record for item, with Status 'Initialized'.
C20_SelfHeal ==
    /\ nops >= 1 => Healed(ledger)
    /\ (nops >= 2 /\ hist.op = "initialize_tracking") =>
           /\ RowCount(ledger, hist.model_id) = 1
           /\ Record(ledger, <<"Status">>, hist.model_id) # EmptyDict
           /\ \A i \in 2..Len(ledger.rows) :
                  ledger.rows[i][1] = hist.model_id =>
                      Cell(ledger.rows[1], ledger.rows[i], "Status") = "Initialized"

\* A file with a duplicated header was loaded, and initialize_tracking has
\* then been called for an item that had no record and has one now.
C20_HealedThenInitialized ==
    /\ nops = 2
    /\ hist.op = "initialize_tracking"
    /\ Healed(hist.before)
    /\ Healed(ledger)
    /\ RowCount(ledger, hist.model_id) = 1
    /\ ledger # hist.before

----------------------------------------------------------------------------
(* Claims about the selective reset *)

\* The columns a selective reset of steps may change: Status, Notes and the
\* completion flags of the listed steps.
ResetColumns(steps) ==
    {"Status", "Notes"} \cup {StepStr(steps[i]) \o " complete" : i \in 1..Len(steps)}

\* C21: after selective_reset_csv(model_ids, steps) without dry-run, for
\* every listed item that has a record and every listed step the completion
\* flag is 'FALSE'; the flags of the steps not listed and all columns other
\* than Status and Notes are unchanged for every record; no ledger row is
\* added or removed (an item that is not in the ledger gets no row).
C21_ResetOnlyFlipsFlags ==
    hist.op = "selective_reset_csv" =>
        /\ ledger.exists = hist.before.exists
        /\ Len(ledger.rows) = Len(hist.before.rows)
        /\ \A b \in OldIds : RowCount(ledger, b) = RowCount(hist.before, b)
        /\ HasRecord(hist.before, hist.model_id) =>
               \A i \in 1..Len(hist.steps) :
                   Record(ledger, old_headers, hist.model_id)
                       [StepStr(hist.steps[i]) \o " complete"] = "FALSE"
        /\ \A b \in OldIds : \A c \in {old_headers[k] : k \in 1..Len(old_headers)} :
               (HasRecord(hist.before, b) /\ c \notin ResetColumns(hist.steps)) =>
                   /\ HasRecord(ledger, b)
                   /\ Record(ledger, old_headers, b)[c]
                        = Record(hist.before, old_headers, b)[c]

\* A selective reset has removed the record of an item and given a row to
\* an item that had none.
C21_ResetReplacedRows ==
    /\ hist.op = "selective_reset_csv"
    /\ \E b \in OldIds : RowCount(hist.before, b) = 1 /\ RowCount(ledger, b) = 0
    /\ RowCount(hist.before, hist.model_id) = 0
    /\ RowCount(ledger, hist.model_id) = 1

----------------------------------------------------------------------------
(* Reading the old ledger: get_transect_status and the dry run of the
   selective reset *)

MaxReadOps == 2

\* A well-formed ledger file with the records of ids.
ValidFile(ids) ==
    LET RowsUpTo[i \in 0..Len(ids)] ==
            IF i = 0 THEN <<old_headers>>
            ELSE Append(RowsUpTo[i - 1], InitialRow(old_headers, ids[i], 1))
    IN  CsvFile(RowsUpTo[Len(ids)])

\* The ledger files a read can meet: missing, empty, well-formed, or with
\* the header row duplicated.
ReadableFiles ==
    {NoFile, CsvFile(<<>>)}
        \cup {ValidFile(ids) : ids \in RecordIdLists}
        \cup {DuplicatedHeaderFile(h, ids) : h \in FileHeaders, ids \in RecordIdLists}

ReadInit ==
    /\ ledger \in ReadableFiles
    /\ day = 1
    /\ hist = NoCall
    /\ lastRow = [m \in OldIds |-> EmptyDict]
    /\ nops = 0
    /\ max_chunks = DefaultMaxChunks
    /\ IdleScheduler

\* get_transect_status(m)
ReadGetTransectStatus(m) ==
    /\ nops < MaxReadOps
    /\ ledger' = old_get_transect_status_file(ledger, m, day)
    /\ old_Logged("get_transect_status", m, 0, <<>>)

\* selective_reset_csv([m], steps, dry_run=True): the existence check, the
\* plan is printed, nothing else.
SelectiveResetDryRun(m, steps) ==
    /\ nops < MaxReadOps
    /\ ledger' = old_get_transect_status_file(ledger, m, day)
    /\ old_Logged("selective_reset_dry_run", m, 0, selective_reset_data(steps, day))

OldReadNext ==
    \/ Tick
    \/ \E m \in OldIds : ReadGetTransectStatus(m)
    \/ \E m \in OldIds : \E steps \in ResetStepLists : SelectiveResetDryRun(m, steps)

SpecOldRead == ReadInit /\ [][OldReadNext]_vars

\* C22: selective reset in dry-run mode writes nothing: for every ledger
\* content, a ledger whose first data row duplicates the header included,
\* the ledger file after selective_reset_csv(model_ids, steps, dry_run=True)
\* is identical to the file before it.
C22_DryRunWritesNothing ==
    hist.op = "selective_reset_dry_run" => ledger = hist.before

\* A dry run has rewritten a ledger that had records behind a duplicated
\* header: the records are gone.
C22_DryRunRewroteLedger ==
    /\ hist.op = "selective_reset_dry_run"
    /\ old_HeaderDuplicated(hist.before.rows)
    /\ Len(hist.before.rows) > 2
    /\ ledger # hist.before
    /\ \E b \in OldIds : RowCount(hist.before, b) = 1 /\ RowCount(ledger, b) = 0

\* C30: reading the ledger is side-effect free: for every ledger file
\* content (missing, empty, valid, or with a duplicated header row) and
\* every work item id, the ledger file after get_transect_status(item) is
\* identical to the file before it.
C30_ReadLeavesFile ==
    hist.op = "get_transect_status" => ledger = hist.before

\* get_transect_status has rewritten the file: it now holds a row for the
\* item asked about, which had none, and nothing of what it held.
C30_ReadCreatedRecord ==
    /\ hist.op = "get_transect_status"
    /\ RowCount(hist.before, hist.model_id) = 0
    /\ RowCount(ledger, hist.model_id) = 1
    /\ Len(ledger.rows) = 2

----------------------------------------------------------------------------
(* The project directory and the reset utilities
   (src/src/_old_2july2025/utility/reset_full.py, src/src/utility/
   reset_step1.py, src/src/utility/reset_step3.py).  A path is the sequence
   of its names below the project directory; the ledger file
   status_<project>.csv is the variable ledger, every other entry is in
   project. *)

MaxResetOps == 1

File(content) == [kind |-> "file", content |-> content]
Dir == [kind |-> "dir", content |-> ""]

\* p is q or an ancestor of q
IsPrefix(p, q) == Len(p) <= Len(q) /\ SubSeq(q, 1, Len(p)) = p

\* os.path.isdir
IsDir(fs, p) == p \in DOMAIN fs /\ fs[p].kind = "dir"

\* os.listdir(p), as paths
Children(fs, p) == {q \in DOMAIN fs : Len(q) = Len(p) + 1 /\ IsPrefix(p, q)}

\* shutil.rmtree / os.remove of every path of S: the paths and all below them
RemoveAll(fs, S) ==
    [q \in {q \in DOMAIN fs : ~\E p \in S : IsPrefix(p, q)} |-> fs[q]]

\* os.makedirs(p, exist_ok=True) for a directory directly below the project
MakeDirs(fs, p) == IF p \in DOMAIN fs THEN fs ELSE (p :> Dir) @@ fs

\* Deleting p raises: p is, or holds, an entry that cannot be deleted.
Undeletable(p, locked) == \E l \in locked : IsPrefix(p, l)

\* str.endswith
EndsWith(name, suffix) ==
    /\ Len(name) >= Len(suffix)
    /\ SubSeq(name, Len(name) - Len(suffix) + 1, Len(name)) = suffix

\* "sub in name"
Contains(name, sub) ==
    \E i \in 1..(Len(name) - Len(sub) + 1) : SubSeq(name, i, i + Len(sub) - 1) = sub

\* try: for item in os.listdir(target): rmtree/remove(item)  except: print
\* The outcomes over the orders os.listdir can return: without an
\* undeletable entry everything goes; with one, the entries listed before
\* it are gone and the loop is left.
EmptyDirectory(fs, target, locked) ==
    LET items == Children(fs, target)
        stuck == {q \in items : Undeletable(q, locked)}
    IN  IF stuck = {} THEN {[fs |-> RemoveAll(fs, items), failed |-> FALSE]}
        ELSE {[fs |-> RemoveAll(fs, gone), failed |-> TRUE] :
                  gone \in SUBSET (items \ stuck)}

\* The path of the ledger file in the project directory
LedgerPath == <<"status_project.csv">>

\* A glob that matches every file of the project root.
RootCsvFiles_any(fs) == {q \in DOMAIN fs : Len(q) = 1 /\ fs[q].kind = "file"}

\* glob(project_dir/*.csv) without the ledger
RootCsvFiles(fs) == {q \in DOMAIN fs : Len(q) = 1 /\ EndsWith(q[1], ".csv")}

\* The operator's answers to input(...)
Answers == {"YES", "yes", "Y", "y", "n", ""}

\* What a reset leaves: the project directory, the ledger, and whether it
\* ended with an exception that nothing caught.
Outcome(fs, f, raised) == [fs |-> fs, ledger |-> f, raised |-> raised]

\* reset_complete, "for dir_name in dirs_to_empty" for one directory
EmptyOrCreate(fs, target, locked) ==
    IF IsDir(fs, target) THEN {o.fs : o \in EmptyDirectory(fs, target, locked)}
    ELSE {MakeDirs(fs, target)}

\* reset_complete, from "Remove specific CSV files" on: os.remove of the
\* ledger, then of every other *.csv of the project root, no try around.
RemoveCsvFiles(fs, f, locked) ==
    IF f.exists /\ LedgerPath \in locked THEN {Outcome(fs, f, TRUE)}
    ELSE LET csvs  == RootCsvFiles(fs)
             stuck == {q \in csvs : Undeletable(q, locked)}
         IN  IF stuck = {} THEN {Outcome(RemoveAll(fs, csvs), NoFile, FALSE)}
             ELSE {Outcome(RemoveAll(fs, gone), NoFile, TRUE) :
                       gone \in SUBSET (csvs \ stuck)}

\* reset_complete(project_dir) after the answer 'YES': the outcomes
reset_complete(fs, f, locked) ==
    UNION {UNION {RemoveCsvFiles(fs2, f, locked) :
                      fs2 \in EmptyOrCreate(fs1, <<"output">>, locked)} :
               fs1 \in EmptyOrCreate(fs, <<"processing">>, locked)}

\* A reset utility has run: the record of the call and what stays as it was.
ResetLogged(op, answer, locked, o) ==
    /\ project' = o.fs
    /\ ledger' = o.ledger
    /\ hist' = [op |-> op, answer |-> answer,
                locked |-> IF answer = "YES" THEN locked ELSE {},
                raised |-> o.raised, before |-> ledger, project_before |-> project]
    /\ nops' = nops + 1
    /\ UNCHANGED <<day, lastRow, max_chunks, pc, batches, bi, ti, doc, results,
                   batch_mapping, psx_files, summary, sealed, runlog>>

\* reset_full.py: reset_complete with the confirmation prompt
ResetComplete(answer, locked) ==
    /\ nops < MaxResetOps
    /\ \E o \in (IF answer # "YES" THEN {Outcome(project, ledger, FALSE)}
                  ELSE reset_complete(project, ledger, locked)) :
           ResetLogged("reset_complete", answer, locked, o)

\* reset_step1.py: step2_plus_columns
step2_plus_columns ==
    {"Step 2 complete", "Step 2 site", "Step 2 consolidation time",
     "Step 3 complete", "Step 3 scale method", "Step 3 scale applied",
     "Step 3 ortho exported", "Step 3 model exported", "Step 3 processing time",
     "Step 4 complete", "Step 4 web published", "Sketchfab URL",
     "Step 4 high-res exported", "Step 4 processing time"}

\* reset_step3.py: step2_columns and step3_columns
step23_columns ==
    {"Step 2 complete", "Step 2 site", "Step 2 consolidation time",
     "Step 3 complete", "Step 3 scale method", "Step 3 scale applied",
     "Step 3 ortho exported", "Step 3 model exported", "Step 3 processing time"}

\* The reset of one data row: the cells under the first column of each name
\* of cols become "", and a Status that mentions one of marks becomes
\* "Step 1 complete".  Cells beyond the header and columns the row is too
\* short for stay as they are.
RECURSIVE ResetCells(_, _, _, _, _)
ResetCells(header, row, cols, marks, j) ==
    IF j = 0 THEN <<>>
    ELSE Append(ResetCells(header, row, cols, marks, j - 1),
                IF j > Len(header) \/ IndexOf(header, header[j]) # j THEN row[j]
                ELSE IF header[j] \in cols THEN ""
                ELSE IF header[j] = "Status" /\ \E mk \in marks : Contains(row[j], mk)
                     THEN "Step 1 complete"
                ELSE row[j])

RECURSIVE ResetRows(_, _, _, _)
ResetRows(rows, cols, marks, i) ==
    IF i = 1 THEN <<rows[1]>>
    ELSE Append(ResetRows(rows, cols, marks, i - 1),
                ResetCells(rows[1], rows[i], cols, marks, Len(rows[i])))

\* "Reset tracking CSV" of reset_after_step1 and reset_step3
reset_tracking(f, cols, marks) ==
    IF f.exists /\ Len(f.rows) > 1
    THEN CsvFile(ResetRows(f.rows, cols, marks, Len(f.rows)))
    ELSE f

\* One deleting loop with no try around it: os.remove / rmtree of the
\* entries of items in the order glob gave them.  An entry that cannot be
\* deleted, or is not there any more, raises.
DeleteOrRaise(fs, items, locked) ==
    LET stuck == {q \in items : Undeletable(q, locked) \/ q \notin DOMAIN fs}
    IN  IF stuck = {} THEN {[fs |-> RemoveAll(fs, items), raised |-> FALSE]}
        ELSE {[fs |-> RemoveAll(fs, gone), raised |-> TRUE] :
                  gone \in SUBSET (items \ stuck)}

\* The loops one after the other: the first that raises ends them all.  A
\* loop that lists its entries when it starts (os.path.exists, glob) meets
\* only entries that are there; a list made earlier is taken as it is.
RECURSIVE DeleteInTurn(_, _, _, _)
DeleteInTurn(fs, loops, k, locked) ==
    IF k > Len(loops) THEN {[fs |-> fs, raised |-> FALSE]}
    ELSE UNION {IF o.raised THEN {o} ELSE DeleteInTurn(o.fs, loops, k + 1, locked) :
                    o \in DeleteOrRaise(fs,
                                        IF loops[k].listed_now
                                        THEN loops[k].items \cap DOMAIN fs
                                        ELSE loops[k].items,
                                        locked)}

\* psx_file.replace('.psx', '.files') on the last name of the path
FilesDirOf(q) ==
    [q EXCEPT ![Len(q)] = SubSeq(q[Len(q)], 1, Len(q[Len(q)]) - 4) \o ".files"]

\* reset_step3(project_dir): the outcomes.  The loops are the rmtree of
\* output/orthomosaics, of output/models, the reports matched by
\* *_step3_report.pdf, those matched by *_report.pdf and
\* *_report_manualScale.pdf (the list was globbed before the first
\* removal, so a file matched twice is removed twice), then the .psx files
\* below output with their .files directories.
reset_step3(fs, f, locked) ==
    LET reports  == {q \in Children(fs, <<"output", "reports">>) : fs[q].kind = "file"}
        first    == {q \in reports : EndsWith(q[3], "_step3_report.pdf")}
        second   == {q \in reports : EndsWith(q[3], "_report.pdf")
                                       \/ EndsWith(q[3], "_report_manualScale.pdf")}
        psx      == {q \in DOMAIN fs : /\ IsPrefix(<<"output">>, q)
                                       /\ Len(q) > 1
                                       /\ EndsWith(q[Len(q)], ".psx")}
        psxAll   == psx \cup {FilesDirOf(q) : q \in psx}
        Loop(items, listed_now) == [items |-> items, listed_now |-> listed_now]
        loops    == << Loop({<<"output", "orthomosaics">>}, TRUE),
                       Loop({<<"output", "models">>}, TRUE),
                       Loop(first, FALSE), Loop(second, FALSE),
                       Loop(psxAll, TRUE) >>
    IN  {Outcome(o.fs,
                 IF o.raised THEN f
                 ELSE reset_tracking(f, step23_columns, {"Step 2", "Step 3"}),
                 o.raised) :
             o \in DeleteInTurn(fs, loops, 1, locked)}

\* reset_after_step1(project_dir) after the answer 'YES': the outcomes
reset_after_step1(fs, f, locked) ==
    {Outcome(fs2, reset_tracking(f, step2_plus_columns, {"Step 2", "Step 3", "Step 4"}),
             FALSE) :
         fs2 \in (IF <<"output">> \in DOMAIN fs
                  THEN {o.fs : o \in EmptyDirectory(fs, <<"output">>, locked)}
                  ELSE {fs})}

\* selective_reset_csv([m], steps, dry_run): the ledger afterwards
selective_reset_csv(f, m, steps, dry_run, d) ==
    LET loaded == old_get_transect_status_file(f, m, d)
    IN  IF old_get_transect_status(f, m) = EmptyDict \/ dry_run THEN loaded
        ELSE old_update_tracking(MarkSteps(loaded, m, steps, 1, d), m,
                                 selective_reset_data(steps, d), d)

\* str.lower() on the answers
Lower(answer) ==
    IF answer = "YES" THEN "yes" ELSE IF answer = "Y" THEN "y" ELSE answer

\* reset_step1.py: reset_after_step1 with the confirmation prompt
ResetAfterStep1(answer, locked) ==
    /\ nops < MaxResetOps
    /\ \E o \in (IF answer # "YES" THEN {Outcome(project, ledger, FALSE)}
                  ELSE reset_after_step1(project, ledger, locked)) :
           ResetLogged("reset_after_step1", answer, locked, o)

\* reset_step3.py: main asks, then reset_step3
ResetStep3(answer, locked) ==
    /\ nops < MaxResetOps
    /\ \E o \in (IF answer # "YES" THEN {Outcome(project, ledger, FALSE)}
                  ELSE reset_step3(project, ledger, locked)) :
           ResetLogged("reset_step3", answer, locked, o)

\* reset_selective.py: main asks unless --force or --dry-run is given, then
\* selective_reset_csv
ResetSelective(m, steps, force, dry_run, answer) ==
    /\ nops < MaxResetOps
    /\ project' = project
    /\ ledger' = IF ~force /\ ~dry_run /\ Lower(answer) # "y" THEN ledger
                 ELSE selective_reset_csv(ledger, m, steps, dry_run, day)
    /\ hist' = [op |-> "reset_selective", answer |-> answer, locked |-> {},
                raised |-> FALSE, before |-> ledger, project_before |-> project,
                force |-> force, dry_run |-> dry_run, model_id |-> m]
    /\ nops' = nops + 1
    /\ UNCHANGED <<day, lastRow, max_chunks, pc, batches, bi, ti, doc, results,
                   batch_mapping, psx_files, summary, sealed, runlog>>

\* The entries of a project directory
PreservedEntries ==
    (<<"video_source">> :> Dir) @@ (<<"video_source", "T1.mp4">> :> File("video"))
        @@ (<<"analysis_params.yaml">> :> File("params"))
        @@ (<<".venv">> :> Dir) @@ (<<".venv", "pyvenv.cfg">> :> File("venv"))

ProcessingEntries ==
    (<<"processing">> :> Dir)
        @@ (<<"processing", "frames">> :> Dir)
        @@ (<<"processing", "frames", "T1">> :> Dir)
        @@ (<<"processing", "psxraw">> :> Dir)
        @@ (<<"processing", "psxraw", "psx_1_20250701.psx">> :> File("T1"))

OutputEntries ==
    (<<"output">> :> Dir)
        @@ (<<"output", "orthomosaics">> :> Dir)
        @@ (<<"output", "orthomosaics", "T1.tif">> :> File("ortho"))
        @@ (<<"output", "models">> :> Dir)
        @@ (<<"output", "models", "T1.obj">> :> File("model"))
        @@ (<<"output", "reports">> :> Dir)
        @@ (<<"output", "reports", "T1_step1.pdf">> :> File("step 1 report"))
        @@ (<<"output", "reports", "T1_report.pdf">> :> File("step 3 report"))
        @@ (<<"output", "psx">> :> Dir)
        @@ (<<"output", "psx", "site.psx">> :> File("T1"))
        @@ (<<"output", "psx", "site.files">> :> Dir)

Step3ReportEntries ==
    (<<"output", "reports", "T1_step3_report.pdf">> :> File("step 3 report"))

RootCsvEntries == (<<"psx_batch_summary.csv">> :> File("summary"))

NoEntries == [q \in {} |-> Dir]

\* The project directories a reset is started in
ProjectDirs ==
    {PreservedEntries @@ a @@ b @@ c :
         a \in {NoEntries, ProcessingEntries},
         b \in {NoEntries, OutputEntries, OutputEntries @@ Step3ReportEntries},
         c \in {NoEntries, RootCsvEntries}}

\* The entries that cannot be deleted during a reset: none, or one
LockSets ==
    {{}} \cup {{l} : l \in {<<"processing", "frames">>, <<"output", "orthomosaics">>,
                            <<"output", "reports", "T1_report.pdf">>,
                            <<"output", "psx", "site.psx">>,
                            <<"psx_batch_summary.csv">>, LedgerPath}}

\* The ledger of src/src/config.py after steps 0 to 3 for T1 and steps 0 and
\* 1 for T2
Step3Ledger ==
    LET calls == << <<"T1", <<>> >>, <<"T2", <<>> >>,
                    <<"T1", Step1SuccessData(1)>>, <<"T2", Step1SuccessData(1)>>,
                    <<"T1", Step2CompleteData>>, <<"T1", Step3CompleteData>> >>
        \* an empty dict stands for the process_video of step 0
        After[i \in 0..Len(calls)] ==
            IF i = 0 THEN NoFile
            ELSE CHOOSE f \in {IF calls[i][2] = <<>>
                               THEN process_video(g, calls[i][1], TRUE, 1)
                               ELSE update_tracking(g, calls[i][1], calls[i][2], 1) :
                                   g \in {After[i - 1]}} : TRUE
    IN  After[Len(calls)]

\* The ledgers a reset meets
ResetLedgers ==
    {NoFile, Step3Ledger, ValidFile(<<"T1">>), DuplicatedHeaderFile(old_headers, <<"T1">>)}

ResetInit ==
    /\ ledger \in ResetLedgers
    /\ day = 1
    /\ hist = NoCall
    /\ lastRow = [m \in OldIds |-> EmptyDict]
    /\ nops = 0
    /\ max_chunks = DefaultMaxChunks
    /\ pc = "idle"
    /\ batches = <<>>
    /\ bi = 0
    /\ ti = 0
    /\ doc = <<>>
    /\ results = <<>>
    /\ batch_mapping = <<>>
    /\ psx_files = <<>>
    /\ summary = NoFile
    /\ sealed = <<>>
    /\ runlog = [n |-> 0, ok |-> {}, failed |-> {}, interrupted |-> {}, written |-> {},
                 finished |-> FALSE, runs |-> 0,
                 selected |-> {}, bad |-> {}, end |-> "none", alloc |-> <<>>]
    /\ project \in ProjectDirs

ResetNext ==
    \/ \E answer \in Answers : \E locked \in LockSets : ResetComplete(answer, locked)
    \/ \E answer \in Answers : \E locked \in LockSets : ResetAfterStep1(answer, locked)
    \/ \E answer \in Answers : \E locked \in LockSets : ResetStep3(answer, locked)
    \/ \E m \in {"T1", "T2"} : \E steps \in ResetStepLists :
       \E force, dry_run \in BOOLEAN : \E answer \in Answers :
           ResetSelective(m, steps, force, dry_run, answer)

SpecReset == ResetInit /\ [][ResetNext]_vars

\* A column named "Step <digit> ..." belongs to the step of that digit
BelongsToStep(name, digits) ==
    Len(name) > 6 /\ SubSeq(name, 1, 5) = "Step " /\ SubSeq(name, 6, 6) \in digits

\* C23: after a confirmed reset_after_step1 the ledger has the same records,
\* every record keeps the value of each column of step 0 and step 1, and each
\* column of step 2, 3 or 4 that the header has is the empty string.
C23_ResetAfterStep1Clears ==
    (hist.op = "reset_after_step1" /\ hist.answer = "YES" /\ ledger.exists) =>
        /\ Len(ledger.rows) = Len(hist.before.rows)
        /\ \A i \in 2..Len(ledger.rows) : \A j \in 1..Len(ledger.rows[1]) :
               j <= Len(ledger.rows[i]) =>
                   /\ BelongsToStep(ledger.rows[1][j], {"0", "1"}) =>
                          ledger.rows[i][j] = hist.before.rows[i][j]
                   /\ BelongsToStep(ledger.rows[1][j], {"2", "3", "4"}) =>
                          ledger.rows[i][j] = ""

\* A confirmed reset_after_step1 has cleared "Step 3 complete" of a record
\* and left a value in its "Step 3 model grounded" column.
C23_GroundedFlagKept ==
    /\ hist.op = "reset_after_step1" /\ hist.answer = "YES" /\ ledger.exists
    /\ \E i \in 2..Len(ledger.rows) :
           /\ Cell(ledger.rows[1], hist.before.rows[i], "Step 3 complete") = "True"
           /\ Cell(ledger.rows[1], ledger.rows[i], "Step 3 complete") = ""
           /\ Cell(ledger.rows[1], ledger.rows[i], "Step 1 complete") = "True"
           /\ Cell(ledger.rows[1], ledger.rows[i], "Step 3 model grounded") # ""

\* reset_full.py alone
ResetFullNext ==
    \E answer \in Answers : \E locked \in LockSets : ResetComplete(answer, locked)

SpecResetFull == ResetInit /\ [][ResetFullNext]_vars

\* items_to_keep of reset_complete
items_to_keep == {".venv", "analysis_params.yaml", "video_source"}

\* C24: after reset_complete, confirmed or cancelled, with or without a
\* deletion that failed, every entry at or below video_source,
\* analysis_params.yaml and .venv exists with the content it had; the only
\* entries removed are entries below processing/ and output/ and *.csv
\* files of the project root, and no entry that is left has changed.
C24_PreserveList ==
    hist.op = "reset_complete" =>
        /\ \A q \in DOMAIN hist.project_before :
               q[1] \in items_to_keep =>
                   q \in DOMAIN project /\ project[q] = hist.project_before[q]
        /\ \A q \in DOMAIN hist.project_before \ DOMAIN project :
               \/ Len(q) > 1 /\ q[1] \in {"processing", "output"}
               \/ Len(q) = 1 /\ EndsWith(q[1], ".csv")
        /\ \A q \in DOMAIN hist.project_before \cap DOMAIN project :
               project[q] = hist.project_before[q]
        /\ ledger \in {hist.before, NoFile}

\* A confirmed reset_complete has removed entries of processing/ and
\* output/, a *.csv file of the root and the ledger, and the video is there.
C24_ResetRemovedOutputs ==
    /\ hist.op = "reset_complete" /\ hist.answer = "YES"
    /\ <<"processing", "frames">> \in DOMAIN hist.project_before \ DOMAIN project
    /\ <<"output", "models", "T1.obj">> \in DOMAIN hist.project_before \ DOMAIN project
    /\ <<"psx_batch_summary.csv">> \in DOMAIN hist.project_before \ DOMAIN project
    /\ hist.before.exists /\ ~ledger.exists
    /\ <<"video_source", "T1.mp4">> \in DOMAIN project

\* C25: reset_complete, reset_after_step1 and reset_step3 answered with
\* anything but 'YES' leave the project directory and the ledger as they
\* were, and so does reset_selective unless the answer is 'y' or --force
\* was given.
C25_NoResetWithoutConfirmation ==
    /\ (hist.op \in {"reset_complete", "reset_after_step1", "reset_step3"}
            /\ hist.answer # "YES") =>
           project = hist.project_before /\ ledger = hist.before
    /\ (hist.op = "reset_selective" /\ hist.answer # "y" /\ ~hist.force) =>
           project = hist.project_before /\ ledger = hist.before

\* reset_selective without --force and without --dry-run was answered 'Y'
\* and has rewritten the ledger.
C25_UpperCaseAnswerResets ==
    /\ hist.op = "reset_selective" /\ hist.answer = "Y"
    /\ ~hist.force /\ ~hist.dry_run
    /\ ledger # hist.before

\* The directories of TargetDirs that op empties
TargetsOf(op) ==
    IF op = "reset_complete" THEN {<<"processing">>, <<"output">>}
    ELSE IF op = "reset_after_step1" THEN {<<"output">>}
    ELSE IF op = "reset_step3" THEN {<<"output", "orthomosaics">>, <<"output", "models">>}
    ELSE {}

\* C26: after a confirmed reset in which no deletion failed, every
\* directory the reset targets that existed before still exists and has no
\* entry.
C26_DirectoriesKept ==
    (hist.op \in {"reset_complete", "reset_after_step1", "reset_step3"}
         /\ hist.answer = "YES" /\ hist.locked = {} /\ ~hist.raised) =>
        \A t \in TargetsOf(hist.op) :
            IsDir(hist.project_before, t) =>
                IsDir(project, t) /\ Children(project, t) = {}

\* A confirmed reset_step3 in which nothing failed has removed the
\* directories output/orthomosaics and output/models themselves.
C26_Step3RemovedDirectories ==
    /\ hist.op = "reset_step3" /\ hist.answer = "YES"
    /\ hist.locked = {} /\ ~hist.raised
    /\ IsDir(hist.project_before, <<"output", "orthomosaics">>)
    /\ IsDir(hist.project_before, <<"output", "models">>)
    /\ <<"output", "orthomosaics">> \notin DOMAIN project
    /\ <<"output", "models">> \notin DOMAIN project
    /\ IsDir(project, <<"output">>)

\* The entries op is to delete in the project directory fs
TargetEntries(op, fs) ==
    IF op = "reset_complete"
    THEN Children(fs, <<"processing">>) \cup Children(fs, <<"output">>) \cup RootCsvFiles(fs)
    ELSE {q \in DOMAIN fs :
              \/ q \in {<<"output", "orthomosaics">>, <<"output", "models">>}
              \/ /\ Len(q) = 3 /\ SubSeq(q, 1, 2) = <<"output", "reports">>
                 /\ fs[q].kind = "file"
                 /\ (EndsWith(q[3], "_report.pdf") \/ EndsWith(q[3], "_report_manualScale.pdf"))
              \/ /\ Len(q) > 1 /\ q[1] = "output"
                 /\ (EndsWith(q[Len(q)], ".psx") \/ EndsWith(q[Len(q)], ".files"))}

\* The ledger after the ledger handling of op
LedgerHandled(op, f) ==
    IF op = "reset_complete" THEN NoFile
    ELSE reset_tracking(f, step23_columns, {"Step 2", "Step 3"})

\* C27: after a confirmed reset_complete or reset_step3 no exception has
\* left the script, every target entry that can be deleted is gone, and the
\* ledger is handled unless it is the ledger that cannot be deleted.
C27_FailureDoesNotAbort ==
    (hist.op \in {"reset_complete", "reset_step3"} /\ hist.answer = "YES") =>
        /\ ~hist.raised
        /\ \A q \in TargetEntries(hist.op, hist.project_before) :
               ~Undeletable(q, hist.locked) => q \notin DOMAIN project
        /\ LedgerPath \notin hist.locked => ledger = LedgerHandled(hist.op, hist.before)

\* A confirmed reset_complete could not delete processing/frames and has
\* left processing/psxraw, which it could have deleted, in place.
C27_SiblingLeftBehind ==
    /\ hist.op = "reset_complete" /\ hist.answer = "YES"
    /\ hist.locked = {<<"processing", "frames">>}
    /\ <<"processing", "psxraw">> \in DOMAIN project
    /\ <<"output">> \in DOMAIN hist.project_before => Children(project, <<"output">>) = {}

----------------------------------------------------------------------------
(* The batch split of main (src/src/step1_isolated.py and
   src/src/_old_2july2025/step1.py) over any list of unprocessed transects *)

MaxLen == 4

MaxSplitK == 3

\* The lists of at most n transect ids
RECURSIVE ListsUpTo(_)
ListsUpTo(n) ==
    IF n = 0 THEN {<<>>}
    ELSE ListsUpTo(n - 1)
             \cup {Append(u, m) : u \in {v \in ListsUpTo(n - 1) : Len(v) = n - 1},
                                  m \in {"T1", "T2", "T3"}}

\* main has its list of unprocessed transects (not empty, or it had
\* returned) and MAX_CHUNKS_PER_PSX
SplitInit ==
    /\ ledger = NoFile
    /\ day = 1
    /\ \E u \in ListsUpTo(MaxLen) \ {<<>>} : hist = [NoCall EXCEPT !.data = u]
    /\ lastRow = [m \in OldIds |-> EmptyDict]
    /\ nops = 0
    /\ max_chunks \in 1..MaxSplitK
    /\ pc = "idle"
    /\ batches = <<>>
    /\ bi = 0
    /\ ti = 0
    /\ doc = <<>>
    /\ results = <<>>
    /\ batch_mapping = <<>>
    /\ psx_files = <<>>
    /\ summary = NoFile
    /\ sealed = <<>>
    /\ runlog = [n |-> 0, ok |-> {}, failed |-> {}, interrupted |-> {}, written |-> {},
                 finished |-> FALSE, runs |-> 0,
                 selected |-> {}, bad |-> {}, end |-> "none", alloc |-> <<>>]
    /\ project = <<>>

\* main: "Split transects into batches"
SplitMain ==
    /\ hist.op = "none"
    /\ batches' = SplitBatches(hist.data, max_chunks)
    /\ hist' = [hist EXCEPT !.op = "main"]
    /\ UNCHANGED <<ledger, day, lastRow, nops, max_chunks, pc, bi, ti, doc, results,
                   batch_mapping, psx_files, summary, sealed, runlog, project>>

SpecSplit == SplitInit /\ [][SplitMain]_vars

\* The first n sequences of seqs, one after the other
RECURSIVE Concat(_, _)
Concat(seqs, n) == IF n = 0 THEN <<>> ELSE Concat(seqs, n - 1) \o seqs[n]

\* C28: the batches main builds, one after the other in batch order, are the
\* list of unprocessed transects; every batch but the last has exactly
\* MAX_CHUNKS_PER_PSX transects and the last has between 1 and that many.
C28_BatchesPartition ==
    hist.op = "main" =>
        /\ Concat(batches, Len(batches)) = hist.data
        /\ Len(batches) >= 1
        /\ \A b \in 1..(Len(batches) - 1) : Len(batches[b]) = max_chunks
        /\ Len(batches[Len(batches)]) \in 1..max_chunks

\* main has built more than one batch and the last one is not full.
C28_ShortLastBatch ==
    /\ hist.op = "main"
    /\ Len(batches) >= 2
    /\ Len(batches[Len(batches)]) < max_chunks

----------------------------------------------------------------------------
(* Step 2, the consolidation of chunks (src/src/step2.py).  psx_files holds
   the containers on disk, keyed by <<directory, file name>>: the step-1
   containers of psxraw and the destination containers of psx; a container
   is the sequence of the labels of its chunks. *)

MaxStep2Ops == 4

Step2Ids == <<"TCRMP_3D_BWR_T1", "TCRMP_3D_BWR_T2", "TCRMP_3D_FLC_T1">>

\* str.split("_"), from character i on, cur the part read so far
RECURSIVE SplitUnderscore(_, _, _)
SplitUnderscore(str, i, cur) ==
    IF i > Len(str) THEN <<cur>>
    ELSE IF SubSeq(str, i, i) = "_" THEN <<cur>> \o SplitUnderscore(str, i + 1, "")
    ELSE SplitUnderscore(str, i + 1, cur \o SubSeq(str, i, i))

\* "_".join(parts[:n])
RECURSIVE JoinUnderscore(_, _)
JoinUnderscore(parts, n) ==
    IF n = 0 THEN ""
    ELSE IF n = 1 THEN parts[1]
    ELSE JoinUnderscore(parts, n - 1) \o "_" \o parts[n]

\* completed_transects["site"]: .str.split("_").str[2], NaN when there is none
Site(model_id) ==
    LET parts == SplitUnderscore(model_id, 1, "")
    IN  IF Len(parts) >= 3 THEN parts[3] ELSE "nan"

\* completed_transects["psx_finalname"]: prefix + ".psx"
psx_finalname(model_id) ==
    LET parts == SplitUnderscore(model_id, 1, "")
    IN  JoinUnderscore(parts, IF Len(parts) < 3 THEN Len(parts) ELSE 3) \o ".psx"

\* A test that never finds the label in the destination.
ExistingChunk_never(chunks, label) == FALSE

\* existing_chunk is not None: the destination has a chunk with the label
ExistingChunk(chunks, label) == \E c \in 1..Len(chunks) : chunks[c] = label

\* chunk is not None: the step-1 container has a chunk with the name
ChunkFound(chunks, chunk_name) == \E c \in 1..Len(chunks) : chunks[c] = chunk_name

\* The dicts of the tracking updates of step2.main
Step2SkippedData(model_id, destination) ==
    << <<"Status", "Step 2 - Chunk skipped">>,
       <<"Step 2 complete", "True">>,
       <<"Step 2 site", Site(model_id)>>,
       <<"Notes", "Chunk " \o model_id \o " already exists in " \o destination
                      \o ". Skipped.">> >>

Step2AppendedData(model_id, destination) ==
    << <<"Status", "Step 2 complete">>,
       <<"Step 2 complete", "True">>,
       <<"Step 2 site", Site(model_id)>>,
       <<"Notes", "Chunk " \o model_id \o " appended to " \o destination \o ".">> >>

Step2NotFoundData(model_id, origin) ==
    << <<"Status", "Error in Step 2 - Chunk not found">>,
       <<"Step 2 complete", "False">>,
       <<"Step 2 site", Site(model_id)>>,
       <<"Notes", "Chunk " \o model_id \o " not found in " \o origin>> >>

Step2ErrorData(model_id, origin) ==
    << <<"Status", "Error in Step 2">>,
       <<"Step 2 complete", "False">>,
       <<"Step 2 site", Site(model_id)>>,
       <<"Notes", "Error consolidating chunk for " \o model_id \o " from " \o origin>> >>

\* completed_transects: the rows of the ledger whose "Step 1 complete" reads
\* as True, as records of Model ID and PSX file, in file order
RECURSIVE CompletedTransects(_, _)
CompletedTransects(f, i) ==
    IF i < 2 THEN <<>>
    ELSE LET rest == CompletedTransects(f, i - 1)
         IN  IF Cell(f.rows[1], f.rows[i], "Step 1 complete") \in {"True", "TRUE", "true"}
             THEN Append(rest, [id |-> Cell(f.rows[1], f.rows[i], "Model ID"),
                                psx_startname |-> Cell(f.rows[1], f.rows[i], "PSX file")])
             ELSE rest

\* completed_transects["psx_finalname"].unique(): first appearances, in order
RECURSIVE Destinations(_, _)
Destinations(completed, n) ==
    IF n = 0 THEN <<>>
    ELSE LET rest == Destinations(completed, n - 1)
             dest == psx_finalname(completed[n].id)
         IN  IF \E k \in 1..Len(rest) : rest[k] = dest THEN rest ELSE Append(rest, dest)

\* The body of "for _, row in relevant_transects.iterrows()" for one row.
\* st has the ledger, the chunks of dest_doc, and the ids skipped and
\* appended so far; files are the containers on disk and broken the step-1
\* containers the engine cannot open.
ConsolidateRow(st, row, destination, files, broken, d) ==
    LET origin == <<"psxraw", row.psx_startname>>
    IN  IF origin \notin DOMAIN files \/ origin \in broken
        THEN [st EXCEPT !.ledger = update_tracking(@, row.id,
                                       Step2ErrorData(row.id, row.psx_startname), d)]
        ELSE IF ~ChunkFound(files[origin], row.id)
        THEN [st EXCEPT !.ledger = update_tracking(@, row.id,
                                       Step2NotFoundData(row.id, row.psx_startname), d)]
        ELSE IF ExistingChunk(st.dest_doc, row.id)
        THEN [st EXCEPT !.ledger = update_tracking(@, row.id,
                                       Step2SkippedData(row.id, destination), d),
                        !.skipped = @ \cup {row.id}]
        ELSE [st EXCEPT !.dest_doc = Append(@, row.id),
                        !.ledger = update_tracking(@, row.id,
                                       Step2AppendedData(row.id, destination), d),
                        !.appended = Append(@, row.id)]

\* The rows of one destination, from row k of completed_transects on
RECURSIVE ConsolidateRows(_, _, _, _, _, _, _)
ConsolidateRows(st, completed, k, destination, files, broken, d) ==
    IF k > Len(completed) THEN st
    ELSE CHOOSE r \in {ConsolidateRows(st2, completed, k + 1, destination, files, broken, d) :
                           st2 \in {IF psx_finalname(completed[k].id) = destination
                                    THEN ConsolidateRow(st, completed[k], destination,
                                                        files, broken, d)
                                    ELSE st}} : TRUE

\* dest_doc.save(dest_project_path) after the rows of a destination; with
\* killed the process has ended before it.
SaveDestination(st, opened, path, killed) ==
    [ledger |-> st.ledger, skipped |-> st.skipped, appended |-> st.appended,
     files |-> IF killed THEN opened ELSE (path :> st.dest_doc) @@ opened]

\* The body of "for destination in ...unique()": open or create the
\* destination, append the chunks of its rows, save.  run has the ledger,
\* the containers on disk and the ids skipped and appended.
ConsolidateDestination(run, completed, destination, broken, killed, d) ==
    LET path == <<"psx", destination>>
    IN  CHOOSE after \in
            UNION {{SaveDestination(st, opened, path, killed) :
                        st \in {ConsolidateRows([ledger |-> run.ledger,
                                                 dest_doc |-> opened[path],
                                                 skipped |-> run.skipped,
                                                 appended |-> run.appended],
                                                completed, 1, destination, opened,
                                                broken, d)}} :
                       opened \in {IF path \in DOMAIN run.files THEN run.files
                                   ELSE (path :> <<>>) @@ run.files}} : TRUE

\* "for destination in ...unique()" from destination n on; with killed the
\* process ends before the first dest_doc.save after the appends.
RECURSIVE ConsolidateFrom(_, _, _, _, _, _, _)
ConsolidateFrom(run, completed, dests, n, broken, killed, d) ==
    IF n > Len(dests) THEN run
    ELSE CHOOSE r \in {IF killed THEN after
                       ELSE ConsolidateFrom(after, completed, dests, n + 1, broken, killed, d) :
                           after \in {ConsolidateDestination(run, completed, dests[n],
                                                             broken, killed, d)}} : TRUE

\* step2.main
step2_main(f, files, broken, killed, d) ==
    LET completed == IF f.exists THEN CompletedTransects(f, Len(f.rows)) ELSE <<>>
        start     == [ledger |-> f, files |-> files, skipped |-> {}, appended |-> <<>>]
    IN  IF completed = <<>> THEN start
        ELSE ConsolidateFrom(start, completed, Destinations(completed, Len(completed)), 1,
                             broken, killed, d)

\* The step-1 containers on disk
Origins(files) == {q \in DOMAIN files : q[1] = "psxraw"}

\* The ledger after step 0 for the first i videos
Step0Done[i \in 0..Len(Step2Ids)] ==
    IF i = 0 THEN NoFile
    ELSE CHOOSE f \in {process_video(g, Step2Ids[i], TRUE, 1) : g \in {Step0Done[i - 1]}} : TRUE

\* Step 0 has run for every video
Step2Init ==
    /\ ledger = Step0Done[Len(Step2Ids)]
    /\ day = 1
    /\ hist = NoCall
    /\ lastRow = [m \in OldIds |-> EmptyDict]
    /\ nops = 0
    /\ max_chunks = DefaultMaxChunks
    /\ pc = "idle"
    /\ batches = <<>>
    /\ bi = 0
    /\ ti = 0
    /\ doc = <<>>
    /\ results = <<>>
    /\ batch_mapping = <<>>
    /\ psx_files = <<>>
    /\ summary = NoFile
    /\ sealed = <<>>
    /\ runlog = [n |-> 0, ok |-> {}, failed |-> {}, interrupted |-> {}, written |-> {},
                 finished |-> FALSE, runs |-> 0,
                 selected |-> {}, bad |-> {}, end |-> "none", alloc |-> <<>>]
    /\ project = <<>>

\* A run of step1_isolated.py processes transect m into a container of its
\* own: the chunk, the completion update and the "PSX file" update.
Step1Run(m) ==
    /\ nops < MaxStep2Ops
    /\ Step1Complete(ledger, m) # "True"
    /\ \E path \in {PsxPath(Cardinality(Origins(psx_files)) + 1, day)} :
       \E f1 \in {update_tracking(ledger, m, Step1SuccessData(day), day)} :
           /\ psx_files' = (<<"psxraw", path>> :> <<m>>) @@ psx_files
           /\ ledger' = update_tracking(f1, m, << <<"PSX file", path>> >>, day)
    /\ hist' = [op |-> "step1", model_id |-> m, before |-> ledger,
                files_before |-> psx_files, skipped |-> {}, appended |-> <<>>]
    /\ nops' = nops + 1
    /\ UNCHANGED <<day, lastRow, max_chunks, pc, batches, bi, ti, doc, results,
                   batch_mapping, summary, sealed, runlog, project>>

\* A run of step2.py
Step2Run(broken, killed) ==
    /\ nops < MaxStep2Ops
    /\ \E run \in {step2_main(ledger, psx_files, broken, killed, day)} :
           /\ ledger' = run.ledger
           /\ psx_files' = run.files
           /\ hist' = [op |-> "step2", model_id |-> "", before |-> ledger,
                       files_before |-> psx_files, skipped |-> run.skipped,
                       appended |-> run.appended]
    /\ nops' = nops + 1
    /\ UNCHANGED <<day, lastRow, max_chunks, pc, batches, bi, ti, doc, results,
                   batch_mapping, summary, sealed, runlog, project>>

Step2Next ==
    \/ \E i \in 1..Len(Step2Ids) : Step1Run(Step2Ids[i])
    \/ \E broken \in SUBSET Origins(psx_files) : \E killed \in BOOLEAN :
           Step2Run(broken, killed)

SpecStep2 == Step2Init /\ [][Step2Next]_vars

\* The number of chunks of the container with the label
CountLabel(chunks, label) == Cardinality({c \in 1..Len(chunks) : chunks[c] = label})

\* C29: a destination container never holds two chunks with the same label,
\* and a run of step 2 that finds the chunk of an item in the destination
\* appends nothing for the item, leaves the destination's chunks of that
\* label as they were and leaves "Step 2 complete" of the item at "True".
C29_ConsolidationIdempotent ==
    /\ \A q \in DOMAIN psx_files :
           q[1] = "psx" =>
               \A c1, c2 \in 1..Len(psx_files[q]) :
                   psx_files[q][c1] = psx_files[q][c2] => c1 = c2
    /\ hist.op = "step2" =>
           \A m \in hist.skipped :
               /\ \A k \in 1..Len(hist.appended) : hist.appended[k] # m
               /\ CountLabel(psx_files[<<"psx", psx_finalname(m)>>], m)
                      = CountLabel(hist.files_before[<<"psx", psx_finalname(m)>>], m)
               /\ Get(get_transect_status(ledger, m), "Step 2 complete", "") = "True"

\* A run of step 2 has found the chunk of one item in the destination and
\* skipped it, and has appended the chunk of another item to the same
\* destination.
C29_SkippedAndAppended ==
    /\ hist.op = "step2"
    /\ "TCRMP_3D_BWR_T1" \in hist.skipped
    /\ hist.appended = <<"TCRMP_3D_BWR_T2">>
    /\ CountLabel(psx_files[<<"psx", "TCRMP_3D_BWR.psx">>], "TCRMP_3D_BWR_T1") = 1
    /\ Len(psx_files[<<"psx", "TCRMP_3D_BWR.psx">>]) = 2

============================================================================
